---- MODULE Spec2Model ----
(***************************************************************************)
(* Grocery store checkout simulation.                                      *)
(*                                                                         *)
(* Two variants of the same model live in the repository:                  *)
(*   - the event-driven one: GroceryStoreSimulation.run (simulation.py)    *)
(*     draining a PriorityQueue of Join/Begin/Finish/Close events over a   *)
(*     GroceryStore (store.py);                                            *)
(*   - the SimPy one: GroceryStoreSimPy (simpy_simulation.py), customer    *)
(*     processes contending for simpy.Resource(capacity=1) per line.       *)
(* A behaviour of this module is one program execution of one variant,     *)
(* chosen in Init together with the inputs.                                *)
(*                                                                         *)
(* Python lists are 0-based; here lines and customers are numbered from 1  *)
(* in creation order, so "lowest index" means the same line in both.       *)
(***************************************************************************)
EXTENDS Integers, Sequences, FiniteSets, TLC

\* ------------------------------------------------------------------ bounds

\* Longest event file given to GroceryStoreSimulation.run.
MaxEvents == 3

\* Most customers asked of GroceryStoreSimPy.run_simulation (num_customers).
MaxSimCustomers == 2

\* Most calls a client makes on a PriorityQueue of its own.
MaxQueueCalls == 5

\* The stores: <<cashier lines, express lines, self-serve lines>>.
StoreShapes ==
    {<<0, 0, 0>>, <<1, 0, 0>>, <<0, 1, 0>>, <<1, 1, 0>>, <<1, 1, 1>>}

\* The configuration files: a store and its line_capacity.  A capacity of
\* 10 never fills a line here, a capacity of 1 fills it with one customer.
StoreConfigs ==
    {<<<<0, 0, 0>>, 10>>, <<<<1, 0, 0>>, 10>>, <<<<0, 1, 0>>, 1>>,
     <<<<1, 1, 0>>, 1>>, <<<<1, 1, 0>>, 10>>, <<<<1, 1, 1>>, 10>>}

\* Item counts of the customers (both sides of the express limit of 7).
ItemChoices == {3, 5, 9}

\* Timestamps of the event file's entries.
TimeChoices == {0, 11}

\* Inter-arrival times drawn by customer_generator (random.expovariate); the
\* draw is 0 when 1.0 / arrival_interval is infinite.
GapChoices == {0, 12}

\* An attribute that has not been set (Python None / attribute absent).
NoTime == -1

\* ------------------------------------------------------------- store.py

LineTypes == {"cashier", "express", "self_serve"}

Line(type) ==
    [type |-> type, people_in_line |-> 0, queue |-> <<>>, is_open |-> TRUE]

get_line_list(c, e, s) ==
    [i \in 1..(c + e + s) |->
        IF i <= c THEN Line("cashier")
        ELSE IF i <= c + e THEN Line("express")
        ELSE Line("self_serve")]

\* EligibleLines that lets a line at capacity through (<= for <).
EligibleLinesAtCapacity(ls, capacity, n) ==
    IF n <= 7
    THEN {i \in DOMAIN ls : ls[i].is_open /\ ls[i].people_in_line <= capacity}
    ELSE {i \in DOMAIN ls : /\ ls[i].is_open
                            /\ ls[i].type # "express"
                            /\ ls[i].people_in_line <= capacity}

\* EligibleLines without the rule for express lines.
EligibleLinesNoLimit(ls, capacity, n) ==
    {i \in DOMAIN ls : ls[i].is_open /\ ls[i].people_in_line < capacity}

\* The eligible lines of assign_customer, before the fallback.
EligibleLines(ls, capacity, n) ==
    IF n <= 7
    THEN {i \in DOMAIN ls : ls[i].is_open /\ ls[i].people_in_line < capacity}
    ELSE {i \in DOMAIN ls : /\ ls[i].is_open
                            /\ ls[i].type # "express"
                            /\ ls[i].people_in_line < capacity}

\* OpenLines that does not look at is_open.
OpenLinesAll(ls) == DOMAIN ls

\* The fallback of assign_customer: any open line.
OpenLines(ls) == {i \in DOMAIN ls : ls[i].is_open}

\* CandidateLines that, with no line open, falls back once more to every line.
CandidateLinesAnyLine(ls, capacity, n) ==
    IF EligibleLines(ls, capacity, n) # {} THEN EligibleLines(ls, capacity, n)
    ELSE IF OpenLines(ls) # {} THEN OpenLines(ls)
    ELSE DOMAIN ls

\* eligible_lines as it stands when min() is called.
CandidateLines(ls, capacity, n) ==
    IF EligibleLines(ls, capacity, n) = {}
    THEN OpenLines(ls)
    ELSE EligibleLines(ls, capacity, n)

\* MinLine without the key: the first candidate of the list.
MinLineNoKey(ls, cand) == CHOOSE i \in cand : \A j \in cand : i <= j

\* MinLine that keeps the last of the minimal lines, not the first.
MinLineLast(ls, cand) ==
    CHOOSE i \in cand :
        \A j \in cand :
            \/ ls[i].people_in_line < ls[j].people_in_line
            \/ ls[i].people_in_line = ls[j].people_in_line /\ i >= j

\* Python's min(key=people_in_line): the first line of the list among the
\* minimal ones.  Only used on a non-empty set.
MinLine(ls, cand) ==
    CHOOSE i \in cand :
        \A j \in cand :
            \/ ls[i].people_in_line < ls[j].people_in_line
            \/ ls[i].people_in_line = ls[j].people_in_line /\ i <= j

best_line(ls, capacity, n) == MinLine(ls, CandidateLines(ls, capacity, n))

\* AfterAssign that puts a waiting customer at the head of the queue.
AfterAssignPrepends(ls, b, c) ==
    [ls EXCEPT ![b] =
        [@ EXCEPT !.people_in_line = @ + 1,
                  !.queue = IF ls[b].people_in_line + 1 > 1
                            THEN <<c>> \o @ ELSE @]]

\* AfterAssign that counts a waiting customer twice.
AfterAssignCountsTwice(ls, b, c) ==
    [ls EXCEPT ![b] =
        [@ EXCEPT !.people_in_line = IF @ + 1 > 1 THEN @ + 2 ELSE @ + 1,
                  !.queue = IF ls[b].people_in_line + 1 > 1
                            THEN Append(@, c) ELSE @]]

\* AfterAssign that queues the customer even on an empty line.
AfterAssignAlwaysQueued(ls, b, c) ==
    [ls EXCEPT ![b] =
        [@ EXCEPT !.people_in_line = @ + 1, !.queue = Append(@, c)]]

\* The lines after assign_customer put customer c (n items) on line b.
AfterAssign(ls, b, c) ==
    [ls EXCEPT ![b] =
        [@ EXCEPT !.people_in_line = @ + 1,
                  !.queue = IF ls[b].people_in_line + 1 > 1
                            THEN Append(@, c) ELSE @]]

\* assign_customer that also enters the customer in the lookup map.
assign_customerUpdatesMap(ls, c2l, capacity, c, n) ==
    LET b == best_line(ls, capacity, n)
    IN  [lines |-> AfterAssign(ls, b, c),
         customer_to_line |-> [c2l EXCEPT ![c] = b],
         best_line |-> b]

\* A successful call of assign_customer for customer c with n items: the
\* lines and the lookup map as the call leaves them, and the line it returns.
assign_customer(ls, c2l, capacity, c, n) ==
    LET b == best_line(ls, capacity, n)
    IN  [lines |-> AfterAssign(ls, b, c),
         customer_to_line |-> c2l,
         best_line |-> b]

\* get_cashier_time with the sign of the constant slipped.
get_cashier_time_minus(n) == n - 7

get_cashier_time(n) == n + 7

get_express_time(n) == n + 4

get_self_serve_time(n) == 2 * n + 1

\* ------------------------------------------- event.py, container.py
\* Neither file is among the sources; the transitions and the queue are
\* taken from the design document (sections 4.1 and 4.3).

\* seq is the sequence number the queue gives the event when it is added
\* (0: not added yet).
Event(kind, t, c, l) ==
    [kind |-> kind, timestamp |-> t, customer |-> c, line |-> l, seq |-> 0]

\* The sequence numbers of add: the events evs are the next ones added after
\* n earlier ones.
Stamp(evs, n) == [i \in DOMAIN evs |-> [evs[i] EXCEPT !.seq = n + i]]

\* PQAdd that puts the event behind every pending one.
PQAddAtEnd(q, ev) == Append(q, ev)

\* PQAdd that puts the event before the pending ones of its timestamp.
RECURSIVE PQAddBeforeTies(_, _)
PQAddBeforeTies(q, ev) ==
    IF q = <<>> THEN <<ev>>
    ELSE IF Head(q).timestamp < ev.timestamp
         THEN <<Head(q)>> \o PQAddBeforeTies(Tail(q), ev)
         ELSE <<ev>> \o q

\* PriorityQueue.add: by timestamp, and by sequence number among equal
\* timestamps.  The queue is kept in the order remove() empties it.
RECURSIVE PQAdd(_, _)
PQAdd(q, ev) ==
    IF q = <<>> THEN <<ev>>
    ELSE IF \/ Head(q).timestamp < ev.timestamp
            \/ Head(q).timestamp = ev.timestamp /\ Head(q).seq < ev.seq
         THEN <<Head(q)>> \o PQAdd(Tail(q), ev)
         ELSE <<ev>> \o q

\* PQAddAll that forgets the last event of the list.
RECURSIVE PQAddAllButLast(_, _)
PQAddAllButLast(q, evs) ==
    IF Len(evs) <= 1 THEN q
    ELSE PQAddAllButLast(PQAdd(q, Head(evs)), Tail(evs))

RECURSIVE PQAddAll(_, _)
PQAddAll(q, evs) ==
    IF evs = <<>> THEN q ELSE PQAddAll(PQAdd(q, Head(evs)), Tail(evs))

\* PriorityQueue.is_empty.
PQIsEmpty(q) == q = <<>>

\* No call of remove() yet.
NoResult == [error |-> "", value |-> <<>>]

\* PQRemove that hands back None from an empty queue instead of failing.
PQRemoveSentinel(q) ==
    IF PQIsEmpty(q)
    THEN [error |-> "", value |-> <<>>, queue |-> q]
    ELSE [error |-> "", value |-> <<Head(q)>>, queue |-> Tail(q)]

\* PriorityQueue.remove: the exception it raises ("" for none), the event
\* it returns (a sequence of one event, empty when it returns nothing) and
\* the queue it leaves.
PQRemove(q) ==
    IF PQIsEmpty(q)
    THEN [error |-> "EmptyQueueError", value |-> <<>>, queue |-> q]
    ELSE [error |-> "", value |-> <<Head(q)>>, queue |-> Tail(q)]

\* The service time of a line of the given type, as the Begin transition
\* computes it from the store's three formulas.
line_service_time(type, n) ==
    IF type = "cashier" THEN get_cashier_time(n)
    ELSE IF type = "express" THEN get_express_time(n)
    ELSE get_self_serve_time(n)

Customer(n) ==
    [number_of_items |-> n, join_time |-> NoTime, begin_time |-> NoTime,
     finish_time |-> NoTime]

\* How many Join entries precede position i of the event file.
RECURSIVE JoinsBefore(_, _)
JoinsBefore(file, i) ==
    IF i <= 1 THEN 0
    ELSE JoinsBefore(file, i - 1) + (IF file[i - 1].kind = "Join" THEN 1 ELSE 0)

\* create_event_list: one event per entry, a fresh Customer per Join entry;
\* base is the number of Customer objects created so far.
create_event_list(file, base) ==
    [i \in 1..Len(file) |->
        IF file[i].kind = "Join"
        THEN Event("Join", file[i].timestamp, base + JoinsBefore(file, i) + 1, 0)
        ELSE Event("Close", file[i].timestamp, 0, file[i].line)]

NewCustomers(file) ==
    LET joins == SelectSeq(file, LAMBDA e : e.kind = "Join")
    IN  [i \in 1..Len(joins) |-> Customer(joins[i].num_items)]

NoAssign ==
    [customer |-> 0, line |-> 0, before |-> <<>>, fallback |-> FALSE]

\* What a transition hands back: the store and the customers as it leaves
\* them, the events it spawns, whether it raised, and (for a Join) the call
\* of assign_customer it made.
Outcome(ls, c2l, cs, new_events, raised, assign) ==
    [lines |-> ls, customer_to_line |-> c2l, customers |-> cs,
     new_events |-> new_events, raised |-> raised, assign |-> assign]

\* Join: assign_customer, update_customer_to_line with the line it returns,
\* then join_time; a Begin now if the customer is alone on the line.  With no open line min() of an empty list raises
\* ValueError inside assign_customer, before anything is changed.
EventJoin_do(event, ls, c2l, cs, capacity) ==
    LET c == event.customer
        n == cs[c].number_of_items
    IN  IF CandidateLines(ls, capacity, n) = {}
        THEN Outcome(ls, c2l, cs, <<>>, TRUE, NoAssign)
        ELSE LET assigned == assign_customer(ls, c2l, capacity, c, n)
                 b == assigned.best_line
                 new_lines == assigned.lines
             IN  Outcome(new_lines,
                         [assigned.customer_to_line EXCEPT ![c] = b],
                         [cs EXCEPT ![c].join_time = event.timestamp],
                         IF new_lines[b].people_in_line = 1
                         THEN <<Event("Begin", event.timestamp, c, 0)>>
                         ELSE <<>>,
                         FALSE,
                         [customer |-> c, line |-> b, before |-> ls,
                          fallback |-> EligibleLines(ls, capacity, n) = {}])

\* Begin: begin_time, and the Finish after the line's service time.
EventBegin_do(event, ls, c2l, cs) ==
    LET c == event.customer
        duration == line_service_time(ls[c2l[c]].type, cs[c].number_of_items)
    IN  Outcome(ls, c2l,
                [cs EXCEPT ![c].begin_time = event.timestamp],
                <<Event("Finish", event.timestamp + duration, c, 0)>>,
                FALSE, NoAssign)

\* Finish: finish_time, one person fewer on the line, and a Begin for the
\* head of the line's queue, which leaves the queue.
EventFinish_do(event, ls, c2l, cs) ==
    LET c == event.customer
        l == c2l[c]
        waiting == ls[l].queue
    IN  Outcome([ls EXCEPT ![l] =
                    [@ EXCEPT !.people_in_line = @ - 1,
                              !.queue = IF waiting # <<>>
                                        THEN Tail(waiting) ELSE waiting]],
                c2l,
                [cs EXCEPT ![c].finish_time = event.timestamp],
                IF waiting # <<>>
                THEN <<Event("Begin", event.timestamp, Head(waiting), 0)>>
                ELSE <<>>,
                FALSE, NoAssign)

\* EventClose_do that also sends away the customers waiting on the line.
EventCloseEmpties_do(event, ls, c2l, cs) ==
    Outcome([ls EXCEPT ![event.line] =
                [@ EXCEPT !.is_open = FALSE,
                          !.people_in_line = @ - Len(ls[event.line].queue),
                          !.queue = <<>>]],
            c2l, cs, <<>>, FALSE, NoAssign)

\* Close: the line stops being open.
EventClose_do(event, ls, c2l, cs) ==
    Outcome([ls EXCEPT ![event.line].is_open = FALSE], c2l, cs, <<>>,
            FALSE, NoAssign)

\* The state a transition must not be invoked against: a Join of a customer
\* who has joined already, a Begin of a customer who is not on a line, who
\* still waits in its queue or who has begun already, a Finish of a
\* customer who is not in the service slot of its line.
Inconsistent(event, ls, c2l, cs) ==
    LET c == event.customer
    IN  IF event.kind = "Join" THEN cs[c].join_time # NoTime
        ELSE IF event.kind = "Begin"
             THEN \/ c2l[c] = 0
                  \/ cs[c].join_time = NoTime
                  \/ cs[c].begin_time # NoTime
                  \/ \E i \in DOMAIN ls[c2l[c]].queue : ls[c2l[c]].queue[i] = c
        ELSE IF event.kind = "Finish"
             THEN \/ c2l[c] = 0
                  \/ cs[c].begin_time = NoTime
                  \/ cs[c].finish_time # NoTime
        ELSE FALSE

\* event.do(store), by the event's class; against inconsistent state it
\* raises InvalidEventError and changes nothing.
Event_do(event, ls, c2l, cs, capacity) ==
    IF Inconsistent(event, ls, c2l, cs)
    THEN Outcome(ls, c2l, cs, <<>>, TRUE, NoAssign)
    ELSE IF event.kind = "Join" THEN EventJoin_do(event, ls, c2l, cs, capacity)
    ELSE IF event.kind = "Begin" THEN EventBegin_do(event, ls, c2l, cs)
    ELSE IF event.kind = "Finish" THEN EventFinish_do(event, ls, c2l, cs)
    ELSE EventClose_do(event, ls, c2l, cs)

\* The exception event.do(store) raises ("" for none): InvalidEventError, or
\* the ValueError of min() over no line in assign_customer.
Event_error(event, ls, c2l, cs, capacity) ==
    IF Inconsistent(event, ls, c2l, cs) THEN "InvalidEventError"
    ELSE IF Event_do(event, ls, c2l, cs, capacity).raised THEN "ValueError"
    ELSE ""

\* ------------------------------------------------- simpy_simulation.py

\* monitor_queues' default arguments.
max_recordings == 1000

interval == 1

\* queue_lengths holds only what calculate_statistics reads of the list:
\* its length, its sum and its maximum.
CheckoutLine(line_type) ==
    [line_type |-> line_type,
     users |-> <<>>,     \* resource.users: the request being served
     queue |-> <<>>,     \* resource.queue: the requests waiting
     customers_served |-> 0,
     total_service_time |-> 0,
     queue_lengths |-> [len |-> 0, sum |-> 0, max |-> 0]]

\* The line list GroceryStoreSimPy.__init__ builds.
SimPyLines(c, e, s) ==
    [i \in 1..(c + e + s) |->
        IF i <= c THEN CheckoutLine("cashier")
        ELSE IF i <= c + e THEN CheckoutLine("express")
        ELSE CheckoutLine("self_serve")]

get_service_time(line_type, num_items) ==
    IF line_type = "cashier" THEN num_items + 7
    ELSE IF line_type = "express"
         THEN IF num_items > 7 THEN num_items + 7 ELSE num_items + 4
    ELSE IF line_type = "self_serve" THEN 2 * num_items + 1
    ELSE num_items + 7

\* record_queue_length, k times over while the queue does not change.
record_queue_length(line, k) ==
    [line EXCEPT !.queue_lengths =
        [len |-> @.len + k,
         sum |-> @.sum + k * Len(line.queue),
         max |-> IF Len(line.queue) > @.max THEN Len(line.queue) ELSE @.max]]

SimCustomer(arrival_time, num_items) ==
    [arrival_time |-> arrival_time, num_items |-> num_items,
     line_join_time |-> NoTime, service_start_time |-> NoTime,
     service_end_time |-> NoTime, assigned_line |-> 0]

\* Customer.wait_time: Python truth of the two times (None and 0 are false).
customer_wait_time(c) ==
    IF /\ c.service_start_time # NoTime /\ c.service_start_time # 0
       /\ c.line_join_time # NoTime /\ c.line_join_time # 0
    THEN c.service_start_time - c.line_join_time
    ELSE 0

\* Customer.total_time.
customer_total_time(c) ==
    IF c.service_end_time # NoTime /\ c.service_end_time # 0
    THEN c.service_end_time - c.arrival_time
    ELSE 0

\* eligible_lines of find_shortest_line.
SimEligibleLines(ls, num_items) ==
    IF num_items <= 7
    THEN DOMAIN ls
    ELSE {i \in DOMAIN ls : ls[i].line_type # "express"}

\* cashier_lines of find_shortest_line's fallback.
cashier_lines(ls) ==
    {i \in DOMAIN ls : ls[i].line_type = "cashier"}

\* The first line of a set of lines, by its place in self.lines (0 when the
\* set is empty).
FirstLine(S) ==
    IF S # {}
    THEN CHOOSE i \in S : \A j \in S : i <= j
    ELSE 0

\* min(eligible_lines, key=len(resource.queue)): the first of the minimal ones.
ShortestQueue(ls, eligible) ==
    CHOOSE i \in eligible :
        \A j \in eligible :
            \/ Len(ls[i].queue) < Len(ls[j].queue)
            \/ Len(ls[i].queue) = Len(ls[j].queue) /\ i <= j

\* find_shortest_line; 0 stands for the IndexError of self.lines[0] on a
\* store without lines.
find_shortest_line(ls, num_items) ==
    IF SimEligibleLines(ls, num_items) # {}
    THEN ShortestQueue(ls, SimEligibleLines(ls, num_items))
    ELSE IF cashier_lines(ls) # {}
         THEN FirstLine(cashier_lines(ls))
         ELSE FirstLine(DOMAIN ls)

\* An entry of the environment's queue.  priority is simpy's URGENT (0, the
\* start of a process) or NORMAL (1); entries with the same time and
\* priority are processed in the order they were scheduled (simpy's event id).
\* kind names what the event resumes:
\*   "generator", "monitor"  the start or a timeout of that process
\*   "customer"              the start of customer_process(who)
\*   "request"               the request of customer who was granted
\*   "service"               the service timeout of customer who
\*   "release"               the release of line who: its callback grants
\*                           the resource to the next waiting request
\*   "ended", "failed"       a process returned, or raised
SimEvent(time, priority, kind, who) ==
    [time |-> time, priority |-> priority, kind |-> kind, who |-> who]

RECURSIVE schedule(_, _)
schedule(q, ev) ==
    IF q = <<>> THEN <<ev>>
    ELSE IF \/ Head(q).time < ev.time
            \/ Head(q).time = ev.time /\ Head(q).priority <= ev.priority
         THEN <<Head(q)>> \o schedule(Tail(q), ev)
         ELSE <<ev>> \o q

RECURSIVE schedule_all(_, _)
schedule_all(q, evs) ==
    IF evs = <<>> THEN q ELSE schedule_all(schedule(q, Head(evs)), Tail(evs))

\* simpy's Resource._trigger_put on line l: with the resource free, the first
\* waiting request becomes its user and its event is scheduled.
\* CanGrant for a resource of capacity 2.
CanGrantTwo(line) == line.queue # <<>> /\ Len(line.users) < 2

CanGrant(line) == line.queue # <<>> /\ Len(line.users) < 1

trigger_put(line) ==
    IF CanGrant(line)
    THEN [line EXCEPT !.users = Append(@, Head(line.queue)),
                      !.queue = Tail(@)]
    ELSE line

NoSimAssign == [customer |-> 0, line |-> 0, before |-> <<>>]

NoSimResults ==
    [total_customers |-> 0, completed_customers |-> 0, max_wait_time |-> 0,
     max_total_time |-> 0, line_stats |-> <<>>, simulation_end_time |-> NoTime]

\* ----------------------------------------------------------------- state

VARIABLES
    variant,           \* "event" (simulation.py), "simpy" (simpy_simulation.py)
                       \* or "queue" (a client calling the PriorityQueue itself)
    config,            \* the configuration file's record
    event_file,        \* the event file's entries, in file order
    lines,             \* GroceryStore._lines
    customer_to_line,  \* GroceryStore._customer_to_line (0: not in the map)
    customers,         \* every Customer object created so far
    events,            \* GroceryStoreSimulation._events, in removal order
    pc,                \* "idle", "loop", "returned" or "raised"
    stats,             \* run's local stats dictionary
    all_customers,     \* run's local all_customers set
    processed,         \* the events removed so far by this invocation of run
    added,             \* every event given to the queue's add, in call order
    handled,           \* every event whose transition was invoked, in call order
    last_assign,       \* the last call of assign_customer: its inputs and choice
    results,           \* the outcome of each finished invocation of run
    num_customers,     \* run_simulation's num_customers argument
    sim_lines,         \* GroceryStoreSimPy.lines
    sim_customers,     \* GroceryStoreSimPy.customers
    env_now,           \* simpy.Environment.now
    env_queue,         \* the environment's scheduled events, in processing order
    gen_i,             \* customer_generator's loop variable i
    recordings,        \* monitor_queues' local recordings
    sim_pc,            \* "idle", "running", "returned" or "raised"
    sim_last_assign,   \* the last call of find_shortest_line: its inputs and choice
    sim_results,       \* what run_simulation returned
    queue_calls,       \* how many calls the queue's client has made
    remove_result      \* what the client's last call of remove() came to

event_vars == <<config, event_file, lines, customer_to_line, customers, events,
                pc, stats, all_customers, processed, added, handled,
                last_assign, results>>

simpy_vars == <<num_customers, sim_lines, sim_customers, env_now, env_queue,
                gen_i, recordings, sim_pc, sim_last_assign, sim_results>>

queue_vars == <<queue_calls, remove_result>>

vars == <<variant, event_vars, simpy_vars, queue_vars>>

NoStats == [num_customers |-> 0, total_time |-> 0, max_wait |-> -1]

Configs ==
    {[cashier_count |-> sc[1][1], express_count |-> sc[1][2],
      self_serve_count |-> sc[1][3], line_capacity |-> sc[2]] :
        sc \in StoreConfigs}

NumLines(cfg) == cfg.cashier_count + cfg.express_count + cfg.self_serve_count

\* The entries an event file can hold for a store of nl lines.
FileEntries(nl) ==
    [kind : {"Join"}, timestamp : TimeChoices, num_items : ItemChoices, line : {0}]
    \cup
    [kind : {"Close"}, timestamp : TimeChoices, num_items : {0}, line : 1..nl]

\* The event files: at most MaxEvents entries, in chronological order.
EventFiles(nl) ==
    {f \in UNION {[1..k -> FileEntries(nl)] : k \in 0..MaxEvents} :
        \A i \in 1..(Len(f) - 1) : f[i].timestamp <= f[i + 1].timestamp}

\* GroceryStoreSimulation.__init__ and GroceryStore.__init__.
InitEvent ==
    /\ config \in Configs
    /\ event_file \in EventFiles(NumLines(config))
    /\ lines = get_line_list(config.cashier_count, config.express_count,
                             config.self_serve_count)
    /\ customer_to_line = <<>>
    /\ customers = <<>>
    /\ events = <<>>
    /\ pc = "idle"
    /\ stats = NoStats
    /\ all_customers = {}
    /\ processed = <<>>
    /\ added = <<>>
    /\ handled = <<>>
    /\ last_assign = NoAssign
    /\ results = <<>>

\* The event-driven variables when the run is a SimPy one.
EventUnused ==
    /\ config = [cashier_count |-> 0, express_count |-> 0,
                 self_serve_count |-> 0, line_capacity |-> 0]
    /\ event_file = <<>>
    /\ lines = <<>>
    /\ customer_to_line = <<>>
    /\ customers = <<>>
    /\ events = <<>>
    /\ pc = "idle"
    /\ stats = NoStats
    /\ all_customers = {}
    /\ processed = <<>>
    /\ added = <<>>
    /\ handled = <<>>
    /\ last_assign = NoAssign
    /\ results = <<>>

\* GroceryStoreSimPy.__init__, as run_simulation_wrapper calls it.
InitSimPy ==
    /\ num_customers \in 0..MaxSimCustomers
    /\ sim_lines \in {SimPyLines(sh[1], sh[2], sh[3]) : sh \in StoreShapes}
    /\ sim_customers = <<>>
    /\ env_now = 0
    /\ env_queue = <<>>
    /\ gen_i = 0
    /\ recordings = 0
    /\ sim_pc = "idle"
    /\ sim_last_assign = NoSimAssign
    /\ sim_results = NoSimResults

\* The SimPy variables when the run is an event-driven one.
SimPyUnused ==
    /\ num_customers = 0
    /\ sim_lines = <<>>
    /\ sim_customers = <<>>
    /\ env_now = 0
    /\ env_queue = <<>>
    /\ gen_i = 0
    /\ recordings = 0
    /\ sim_pc = "idle"
    /\ sim_last_assign = NoSimAssign
    /\ sim_results = NoSimResults

\* The variables of the queue's client when the run is a simulation.
QueueUnused ==
    /\ queue_calls = 0
    /\ remove_result = NoResult

Init ==
    \/ variant = "event" /\ InitEvent /\ SimPyUnused /\ QueueUnused
    \/ variant = "simpy" /\ InitSimPy /\ EventUnused /\ QueueUnused

\* ---------------------------------------------------------------- run

\* JoinCustomers without the isinstance test: every event counts.
JoinCustomersAnyKind(initial_events) ==
    {initial_events[i].customer : i \in 1..Len(initial_events)}

\* JoinCustomers that forgets to count the Join events.
JoinCustomersForgotten(initial_events) == {}

\* The customers run adds to all_customers while it loads the events.
JoinCustomers(initial_events) ==
    {initial_events[i].customer :
        i \in {j \in 1..Len(initial_events) : initial_events[j].kind = "Join"}}

\* run, up to the loop: the stats dictionary, the event list, the queue.
\* A second invocation works on the store and the queue the first one left.
RunStart ==
    /\ variant = "event"
    /\ \/ pc = "idle"
       \/ pc \in {"returned", "raised"} /\ Len(results) = 1
    /\ \E initial_events \in
              {Stamp(create_event_list(event_file, Len(customers)), Len(added))} :
           /\ events' = PQAddAll(events, initial_events)
           /\ added' = added \o initial_events
           /\ all_customers' = JoinCustomers(initial_events)
    /\ customers' = customers \o NewCustomers(event_file)
    /\ customer_to_line' =
          customer_to_line \o [i \in 1..Len(NewCustomers(event_file)) |-> 0]
    /\ stats' = NoStats
    /\ processed' = <<>>
    /\ pc' = "loop"
    /\ UNCHANGED <<variant, simpy_vars, queue_vars>>
    /\ UNCHANGED <<config, event_file, lines, handled, last_assign, results>>

\* AddSpawned that adds the spawned Finish events only.
AddSpawnedFinishOnly(q, new_events) ==
    PQAddAll(q, SelectSeq(new_events, LAMBDA e : e.kind = "Finish"))

\* AddSpawned that adds only a single event, not the events of a list.
AddSpawnedNoList(q, new_events) == q

\* The end of the loop body: every event the transition returned is added
\* to the queue.  (The transitions are modelled as returning a list, empty
\* when they spawn nothing.)
AddSpawned(q, new_events) == PQAddAll(q, new_events)

\* max_wait after a Finish of customer c has been handled.
MaxWaitAfter(cs, c, max_wait) ==
    IF cs[c].join_time # NoTime /\ cs[c].finish_time # NoTime
    THEN LET wait_time == cs[c].finish_time - cs[c].join_time
         IN  IF wait_time > max_wait THEN wait_time ELSE max_wait
    ELSE max_wait

\* What event.do(self._store) leaves behind, for the event at the head of
\* the queue.
Done == Event_do(Head(events), lines, customer_to_line, customers,
                 config.line_capacity)

\* The exception event.do raises for that event ("" for none).
DoneError == Event_error(Head(events), lines, customer_to_line, customers,
                         config.line_capacity)

\* ProcessEvent that adds the timestamp to total_time, not stores it.
ProcessEventSumsTime ==
    /\ pc = "loop" /\ events # <<>>
    /\ ~Done.raised
    /\ LET event == Head(events)
       IN  /\ lines' = Done.lines
           /\ customer_to_line' = Done.customer_to_line
           /\ customers' = Done.customers
           /\ last_assign' = IF event.kind = "Join" THEN Done.assign ELSE last_assign
           /\ stats' = [stats EXCEPT
                          !.total_time = @ + event.timestamp,
                          !.max_wait =
                              IF event.kind = "Finish"
                              THEN MaxWaitAfter(Done.customers, event.customer, @)
                              ELSE @]
           /\ LET new_events == Stamp(Done.new_events, Len(added))
              IN  /\ events' = AddSpawned(Tail(events), new_events)
                  /\ added' = added \o new_events
                  /\ all_customers' = all_customers \cup JoinCustomers(new_events)
           /\ processed' = Append(processed, event)
           /\ handled' = Append(handled, event)
    /\ UNCHANGED <<variant, simpy_vars, queue_vars>>
    /\ UNCHANGED <<config, event_file, pc, results>>

\* One iteration of the loop: the first event is removed and handled, the
\* statistics are updated and the spawned events are added.
ProcessEvent ==
    /\ pc = "loop" /\ events # <<>>
    /\ ~Done.raised
    /\ LET event == Head(events)
       IN  /\ lines' = Done.lines
           /\ customer_to_line' = Done.customer_to_line
           /\ customers' = Done.customers
           /\ last_assign' = IF event.kind = "Join" THEN Done.assign ELSE last_assign
           /\ stats' = [stats EXCEPT
                          !.total_time = event.timestamp,
                          !.max_wait =
                              IF event.kind = "Finish"
                              THEN MaxWaitAfter(Done.customers, event.customer, @)
                              ELSE @]
           /\ LET new_events == Stamp(Done.new_events, Len(added))
              IN  /\ events' = AddSpawned(Tail(events), new_events)
                  /\ added' = added \o new_events
                  /\ all_customers' = all_customers \cup JoinCustomers(new_events)
           /\ processed' = Append(processed, event)
           /\ handled' = Append(handled, event)
    /\ UNCHANGED <<variant, simpy_vars, queue_vars>>
    /\ UNCHANGED <<config, event_file, pc, results>>

\* ProcessEventRaises that catches the exception and goes on with the next
\* event.
ProcessEventSkips ==
    /\ pc = "loop" /\ events # <<>>
    /\ Done.raised
    /\ events' = Tail(events)
    /\ stats' = [stats EXCEPT !.total_time = Head(events).timestamp]
    /\ processed' = Append(processed, Head(events))
    /\ handled' = Append(handled, Head(events))
    /\ UNCHANGED <<variant, simpy_vars, queue_vars>>
    /\ UNCHANGED <<config, event_file, lines, customer_to_line, customers,
                   all_customers, added, last_assign, pc, results>>

\* The same iteration when event.do raises: run does not catch the
\* exception, so it returns nothing; the event has left the queue.
ProcessEventRaises ==
    /\ pc = "loop" /\ events # <<>>
    /\ Done.raised
    /\ events' = Tail(events)
    /\ stats' = [stats EXCEPT !.total_time = Head(events).timestamp]
    /\ processed' = Append(processed, Head(events))
    /\ handled' = Append(handled, Head(events))
    /\ pc' = "raised"
    /\ results' = Append(results, [status |-> "raised", stats |-> NoStats,
                                    error |-> DoneError])
    /\ UNCHANGED <<variant, simpy_vars, queue_vars>>
    /\ UNCHANGED <<config, event_file, lines, customer_to_line, customers,
                   all_customers, added, last_assign>>

\* FinalStats with the count one too high.
FinalStatsOffByOne(st, all) == [st EXCEPT !.num_customers = Cardinality(all) + 1]

\* stats as run returns it: the customer count is the size of all_customers.
FinalStats(st, all) == [st EXCEPT !.num_customers = Cardinality(all)]

\* RunReturn that does not look at the queue: a return inside the loop.
RunReturnEarly ==
    /\ pc = "loop"
    /\ stats' = FinalStats(stats, all_customers)
    /\ results' = Append(results, [status |-> "returned", stats |-> stats'])
    /\ pc' = "returned"
    /\ UNCHANGED <<variant, simpy_vars, queue_vars>>
    /\ UNCHANGED <<config, event_file, lines, customer_to_line, customers,
                   events, all_customers, processed, added, handled,
                   last_assign>>

\* The queue is empty: the customer count is set and stats is returned.
RunReturn ==
    /\ pc = "loop" /\ events = <<>>
    /\ stats' = FinalStats(stats, all_customers)
    /\ results' = Append(results, [status |-> "returned", stats |-> stats'])
    /\ pc' = "returned"
    /\ UNCHANGED <<variant, simpy_vars, queue_vars>>
    /\ UNCHANGED <<config, event_file, lines, customer_to_line, customers,
                   events, all_customers, processed, added, handled,
                   last_assign>>

\* ------------------------------------------------- GroceryStoreSimPy

max_of(S) == CHOOSE x \in S : \A y \in S : y <= x

min_of(S) == CHOOSE x \in S : \A y \in S : x <= y

\* calculate_statistics.  The averages (rounded quotients) are left out; the
\* other fields are integers here, which round(x, 2) leaves as they are.
calculate_statistics(ls, cs, now) ==
    LET completed_customers == SelectSeq(cs, LAMBDA c : c.service_end_time # NoTime)
        wait_times == {customer_wait_time(completed_customers[i]) :
                          i \in DOMAIN completed_customers}
        total_times == {customer_total_time(completed_customers[i]) :
                           i \in DOMAIN completed_customers}
    IN  IF completed_customers = <<>>
        THEN [total_customers |-> Len(cs), completed_customers |-> 0,
              max_wait_time |-> 0, max_total_time |-> 0,
              line_stats |-> <<>>, simulation_end_time |-> NoTime]
        ELSE [total_customers |-> Len(cs),
              completed_customers |-> Len(completed_customers),
              max_wait_time |-> max_of(wait_times),
              max_total_time |-> max_of(total_times),
              line_stats |->
                 [i \in DOMAIN ls |->
                    [line_id |-> i - 1,
                     line_type |-> ls[i].line_type,
                     customers_served |-> ls[i].customers_served,
                     max_queue_length |->
                        IF ls[i].queue_lengths.len > 0
                        THEN ls[i].queue_lengths.max ELSE 0,
                     total_service_time |-> ls[i].total_service_time]],
              simulation_end_time |-> now]

\* run_simulation up to env.run(): the two processes are started.
SimStart ==
    /\ variant = "simpy" /\ sim_pc = "idle"
    /\ env_queue' = schedule_all(env_queue,
                        <<SimEvent(env_now, 0, "generator", 0),
                          SimEvent(env_now, 0, "monitor", 0)>>)
    /\ sim_pc' = "running"
    /\ UNCHANGED <<num_customers, sim_lines, sim_customers, env_now, gen_i,
                   recordings, sim_last_assign, sim_results>>
    /\ UNCHANGED <<variant, event_vars, queue_vars>>

\* env.step() takes the first scheduled event and advances the clock.
Stepping(kind) ==
    /\ sim_pc = "running" /\ env_queue # <<>> /\ Head(env_queue).kind = kind
    /\ UNCHANGED <<variant, event_vars, queue_vars>>

\* customer_generator with num_customers = 0: the loop body never runs.
StepGeneratorEmpty ==
    /\ Stepping("generator") /\ num_customers = 0
    /\ env_now' = Head(env_queue).time
    /\ env_queue' = schedule(Tail(env_queue), SimEvent(env_now', 1, "ended", 0))
    /\ UNCHANGED <<num_customers, sim_lines, sim_customers, gen_i, recordings,
                   sim_pc, sim_last_assign, sim_results>>

\* StepGeneratorNext that returns after its customer: the loop stops one
\* iteration early.
StepGeneratorNextReturns ==
    /\ Stepping("generator") /\ gen_i < num_customers - 1
    /\ env_now' = Head(env_queue).time
    /\ \E num_items \in ItemChoices :
          /\ sim_customers' = Append(sim_customers, SimCustomer(env_now', num_items))
          /\ env_queue' = schedule_all(Tail(env_queue),
                <<SimEvent(env_now', 0, "customer", Len(sim_customers) + 1),
                  SimEvent(env_now', 1, "ended", 0)>>)
    /\ gen_i' = num_customers
    /\ UNCHANGED <<num_customers, sim_lines, recordings, sim_pc,
                   sim_last_assign, sim_results>>

\* One iteration of customer_generator's loop that is not the last: a
\* customer is created, its process started, and the generator sleeps.
StepGeneratorNext ==
    /\ Stepping("generator") /\ gen_i < num_customers - 1
    /\ env_now' = Head(env_queue).time
    /\ \E num_items \in ItemChoices, inter_arrival \in GapChoices :
          /\ sim_customers' = Append(sim_customers, SimCustomer(env_now', num_items))
          /\ env_queue' = schedule_all(Tail(env_queue),
                <<SimEvent(env_now', 0, "customer", Len(sim_customers) + 1),
                  SimEvent(env_now' + inter_arrival, 1, "generator", 0)>>)
    /\ gen_i' = gen_i + 1
    /\ UNCHANGED <<num_customers, sim_lines, recordings, sim_pc,
                   sim_last_assign, sim_results>>

\* The last iteration: the customer is created and the generator returns.
StepGeneratorLast ==
    /\ Stepping("generator") /\ num_customers > 0 /\ gen_i = num_customers - 1
    /\ env_now' = Head(env_queue).time
    /\ \E num_items \in ItemChoices :
          /\ sim_customers' = Append(sim_customers, SimCustomer(env_now', num_items))
          /\ env_queue' = schedule_all(Tail(env_queue),
                <<SimEvent(env_now', 0, "customer", Len(sim_customers) + 1),
                  SimEvent(env_now', 1, "ended", 0)>>)
    /\ gen_i' = gen_i + 1
    /\ UNCHANGED <<num_customers, sim_lines, recordings, sim_pc,
                   sim_last_assign, sim_results>>

\* One iteration of monitor_queues' loop while other events are scheduled.
StepMonitor ==
    /\ Stepping("monitor") /\ recordings < max_recordings
    /\ Tail(env_queue) # <<>>
    /\ env_now' = Head(env_queue).time
    /\ sim_lines' = [i \in DOMAIN sim_lines |-> record_queue_length(sim_lines[i], 1)]
    /\ recordings' = recordings + 1
    /\ env_queue' = schedule(Tail(env_queue),
                             SimEvent(env_now' + interval, 1, "monitor", 0))
    /\ UNCHANGED <<num_customers, sim_customers, gen_i, sim_pc,
                   sim_last_assign, sim_results>>

\* The remaining iterations of monitor_queues' loop when the monitor is the
\* only process left: nothing can run between them, so they are taken in
\* one step, up to the timeout that follows the last recording.
StepMonitorAlone ==
    /\ Stepping("monitor") /\ recordings < max_recordings
    /\ Tail(env_queue) = <<>>
    /\ LET k == max_recordings - recordings
       IN  /\ env_now' = Head(env_queue).time + (k - 1) * interval
           /\ sim_lines' =
                 [i \in DOMAIN sim_lines |-> record_queue_length(sim_lines[i], k)]
           /\ env_queue' = <<SimEvent(env_now' + interval, 1, "monitor", 0)>>
    /\ recordings' = max_recordings
    /\ UNCHANGED <<num_customers, sim_customers, gen_i, sim_pc,
                   sim_last_assign, sim_results>>

\* monitor_queues' loop condition fails: the monitor returns.
StepMonitorEnd ==
    /\ Stepping("monitor") /\ recordings >= max_recordings
    /\ env_now' = Head(env_queue).time
    /\ env_queue' = schedule(Tail(env_queue), SimEvent(env_now', 1, "ended", 0))
    /\ UNCHANGED <<num_customers, sim_lines, sim_customers, gen_i, recordings,
                   sim_pc, sim_last_assign, sim_results>>

\* customer_process up to "yield request": the line is chosen and the
\* request is put on its resource, which grants it at once when free.
StepCustomer ==
    /\ Stepping("customer")
    /\ env_now' = Head(env_queue).time
    /\ LET c == Head(env_queue).who
           l == find_shortest_line(sim_lines, sim_customers[c].num_items)
       IN  /\ l # 0
           /\ LET requested == [sim_lines[l] EXCEPT !.queue = Append(@, c)]
              IN  /\ sim_lines' = [sim_lines EXCEPT ![l] = trigger_put(requested)]
                  /\ env_queue' =
                        IF CanGrant(requested)
                        THEN schedule(Tail(env_queue),
                                SimEvent(env_now', 1, "request", Head(requested.queue)))
                        ELSE Tail(env_queue)
           /\ sim_customers' = [sim_customers EXCEPT
                                  ![c].assigned_line = l,
                                  ![c].line_join_time = env_now']
           /\ sim_last_assign' = [customer |-> c, line |-> l, before |-> sim_lines]
    /\ UNCHANGED <<num_customers, gen_i, recordings, sim_pc, sim_results>>

\* customer_process in a store without lines: self.lines[0] raises
\* IndexError and the process fails.
StepCustomerRaises ==
    /\ Stepping("customer")
    /\ env_now' = Head(env_queue).time
    /\ find_shortest_line(sim_lines, sim_customers[Head(env_queue).who].num_items) = 0
    /\ env_queue' = schedule(Tail(env_queue),
                             SimEvent(env_now', 1, "failed", Head(env_queue).who))
    /\ UNCHANGED <<num_customers, sim_lines, sim_customers, gen_i, recordings,
                   sim_pc, sim_last_assign, sim_results>>

\* StepRequest whose timeout is one unit longer than the service time.
StepRequestLate ==
    /\ Stepping("request")
    /\ env_now' = Head(env_queue).time
    /\ LET c == Head(env_queue).who
           line == sim_lines[sim_customers[c].assigned_line]
           service_time == get_service_time(line.line_type, sim_customers[c].num_items)
       IN  /\ sim_customers' = [sim_customers EXCEPT ![c].service_start_time = env_now']
           /\ env_queue' = schedule(Tail(env_queue),
                                    SimEvent(env_now' + service_time + 1, 1, "service", c))
    /\ UNCHANGED <<num_customers, sim_lines, gen_i, recordings, sim_pc,
                   sim_last_assign, sim_results>>

\* StepRequest that writes the time into line_join_time as well.
StepRequestRejoins ==
    /\ Stepping("request")
    /\ env_now' = Head(env_queue).time
    /\ LET c == Head(env_queue).who
           line == sim_lines[sim_customers[c].assigned_line]
           service_time == get_service_time(line.line_type, sim_customers[c].num_items)
       IN  /\ sim_customers' = [sim_customers EXCEPT
                                  ![c].line_join_time = env_now',
                                  ![c].service_start_time = env_now']
           /\ env_queue' = schedule(Tail(env_queue),
                                    SimEvent(env_now' + service_time, 1, "service", c))
    /\ UNCHANGED <<num_customers, sim_lines, gen_i, recordings, sim_pc,
                   sim_last_assign, sim_results>>

\* customer_process from the granted request to "yield timeout": service begins.
StepRequest ==
    /\ Stepping("request")
    /\ env_now' = Head(env_queue).time
    /\ LET c == Head(env_queue).who
           line == sim_lines[sim_customers[c].assigned_line]
           service_time == get_service_time(line.line_type, sim_customers[c].num_items)
       IN  /\ sim_customers' = [sim_customers EXCEPT ![c].service_start_time = env_now']
           /\ env_queue' = schedule(Tail(env_queue),
                                    SimEvent(env_now' + service_time, 1, "service", c))
    /\ UNCHANGED <<num_customers, sim_lines, gen_i, recordings, sim_pc,
                   sim_last_assign, sim_results>>

\* StepService that adds the time since the customer joined the line, the
\* wait included, to total_service_time.
StepServiceSinceJoin ==
    /\ Stepping("service")
    /\ env_now' = Head(env_queue).time
    /\ LET c == Head(env_queue).who
           l == sim_customers[c].assigned_line
           service_time == env_now' - sim_customers[c].line_join_time
       IN  /\ sim_customers' = [sim_customers EXCEPT ![c].service_end_time = env_now']
           /\ sim_lines' = [sim_lines EXCEPT ![l] =
                 [@ EXCEPT !.customers_served = @ + 1,
                           !.total_service_time = @ + service_time,
                           !.users = SelectSeq(@, LAMBDA u : u # c)]]
           /\ env_queue' = schedule_all(Tail(env_queue),
                              <<SimEvent(env_now', 1, "release", l),
                                SimEvent(env_now', 1, "ended", c)>>)
    /\ UNCHANGED <<num_customers, gen_i, recordings, sim_pc, sim_last_assign,
                   sim_results>>

\* customer_process after the service timeout: service ends, the resource
\* is released (the request leaves resource.users) and the process returns.
StepService ==
    /\ Stepping("service")
    /\ env_now' = Head(env_queue).time
    /\ LET c == Head(env_queue).who
           l == sim_customers[c].assigned_line
           service_time ==
               get_service_time(sim_lines[l].line_type, sim_customers[c].num_items)
       IN  /\ sim_customers' = [sim_customers EXCEPT ![c].service_end_time = env_now']
           /\ sim_lines' = [sim_lines EXCEPT ![l] =
                 [@ EXCEPT !.customers_served = @ + 1,
                           !.total_service_time = @ + service_time,
                           !.users = SelectSeq(@, LAMBDA u : u # c)]]
           /\ env_queue' = schedule_all(Tail(env_queue),
                              <<SimEvent(env_now', 1, "release", l),
                                SimEvent(env_now', 1, "ended", c)>>)
    /\ UNCHANGED <<num_customers, gen_i, recordings, sim_pc, sim_last_assign,
                   sim_results>>

\* The release event's callback: the next waiting request gets the resource.
StepRelease ==
    /\ Stepping("release")
    /\ env_now' = Head(env_queue).time
    /\ LET l == Head(env_queue).who
       IN  /\ sim_lines' = [sim_lines EXCEPT ![l] = trigger_put(sim_lines[l])]
           /\ env_queue' =
                 IF CanGrant(sim_lines[l])
                 THEN schedule(Tail(env_queue),
                         SimEvent(env_now', 1, "request", Head(sim_lines[l].queue)))
                 ELSE Tail(env_queue)
    /\ UNCHANGED <<num_customers, sim_customers, gen_i, recordings, sim_pc,
                   sim_last_assign, sim_results>>

\* The event of a process that returned: nothing waits for it.
StepEnded ==
    /\ Stepping("ended")
    /\ env_now' = Head(env_queue).time
    /\ env_queue' = Tail(env_queue)
    /\ UNCHANGED <<num_customers, sim_lines, sim_customers, gen_i, recordings,
                   sim_pc, sim_last_assign, sim_results>>

\* The event of a process that raised: env.run() re-raises its exception
\* and run_simulation returns nothing.
StepFailed ==
    /\ Stepping("failed")
    /\ env_now' = Head(env_queue).time
    /\ env_queue' = Tail(env_queue)
    /\ sim_pc' = "raised"
    /\ UNCHANGED <<num_customers, sim_lines, sim_customers, gen_i, recordings,
                   sim_last_assign, sim_results>>

\* No event is left: env.run() returns and the statistics are computed.
SimReturn ==
    /\ variant = "simpy" /\ sim_pc = "running" /\ env_queue = <<>>
    /\ sim_results' = calculate_statistics(sim_lines, sim_customers, env_now)
    /\ sim_pc' = "returned"
    /\ UNCHANGED <<num_customers, sim_lines, sim_customers, env_now, env_queue,
                   gen_i, recordings, sim_last_assign>>
    /\ UNCHANGED <<variant, event_vars, queue_vars>>

\* ------------------------------------------- a client of the queue
\* container.py is not among the sources; the calls are those the design
\* document (section 4.1) gives the queue, made in any order.

\* The client calls add with a fresh event.
QueueAdd ==
    /\ variant = "queue" /\ queue_calls < MaxQueueCalls
    /\ \E t \in TimeChoices :
          \E ev \in {Stamp(<<Event("Close", t, 0, 1)>>, Len(added))[1]} :
              /\ events' = PQAdd(events, ev)
              /\ added' = Append(added, ev)
    /\ queue_calls' = queue_calls + 1
    /\ UNCHANGED <<variant, simpy_vars, remove_result>>
    /\ UNCHANGED <<config, event_file, lines, customer_to_line, customers, pc,
                   stats, all_customers, processed, handled, last_assign,
                   results>>

\* The client calls remove, whether or not the queue holds an event.
QueueRemove ==
    /\ variant = "queue" /\ queue_calls < MaxQueueCalls
    /\ events' = PQRemove(events).queue
    /\ handled' = handled \o PQRemove(events).value
    /\ remove_result' = [error |-> PQRemove(events).error,
                         value |-> PQRemove(events).value]
    /\ queue_calls' = queue_calls + 1
    /\ UNCHANGED <<variant, simpy_vars>>
    /\ UNCHANGED <<config, event_file, lines, customer_to_line, customers, pc,
                   stats, all_customers, processed, added, last_assign,
                   results>>

\* A defect in event generation: once, during a run, the queue is handed a
\* Begin or a Finish, at the time of the clock, for a customer of the run,
\* whatever the state of that customer.
DefectiveAdd ==
    /\ variant = "event" /\ pc = "loop" /\ queue_calls = 0
    /\ \E c \in DOMAIN customers, kind \in {"Begin", "Finish"} :
          \E ev \in {Stamp(<<Event(kind, stats.total_time, c, 0)>>, Len(added))[1]} :
              /\ events' = PQAdd(events, ev)
              /\ added' = Append(added, ev)
    /\ queue_calls' = queue_calls + 1
    /\ UNCHANGED <<variant, simpy_vars, remove_result>>
    /\ UNCHANGED <<config, event_file, lines, customer_to_line, customers, pc,
                   stats, all_customers, processed, handled, last_assign,
                   results>>

\* ----------------------------------------------------------------- claims

IsSet(t) == t # NoTime

\* The Finish events this invocation of run has handled so far.
FinishesProcessed == SelectSeq(processed, LAMBDA e : e.kind = "Finish")

HasClose(file) == \E i \in DOMAIN file : file[i].kind = "Close"

SimCompleted == {c \in DOMAIN sim_customers : IsSet(sim_customers[c].service_end_time)}

\* C1 (conservation): a run never handles more Finish events than it has
\* customers with a Join event, and when run returns on an event file
\* without Close events every such customer has finished; in the SimPy
\* variant the completed customers never outnumber the created ones and
\* all of the requested ones have completed when run_simulation returns.
Conservation ==
    /\ Len(FinishesProcessed) <= Cardinality(all_customers)
    /\ pc = "returned" /\ ~HasClose(event_file) =>
          /\ Len(FinishesProcessed) = Cardinality(all_customers)
          /\ \A c \in all_customers : IsSet(customers[c].finish_time)
          /\ results[Len(results)].stats.num_customers = Len(FinishesProcessed)
    /\ Cardinality(SimCompleted) <= Len(sim_customers)
    /\ sim_pc = "returned" =>
          /\ SimCompleted = DOMAIN sim_customers
          /\ Len(sim_customers) = num_customers
          /\ sim_results.completed_customers = sim_results.total_customers

\* run has returned on an event file without Close events and with at
\* least two customers, one of whom had to wait.
ConservationWitness ==
    /\ pc = "returned" /\ ~HasClose(event_file)
    /\ Cardinality(all_customers) >= 2
    /\ \E c \in all_customers : customers[c].begin_time > customers[c].join_time

\* C2 (monotonicity): for every customer, whichever of the three times are
\* set are in the order join <= begin <= finish, in both variants.
Monotonicity ==
    /\ \A c \in DOMAIN customers :
          LET k == customers[c]
          IN  /\ IsSet(k.join_time) /\ IsSet(k.begin_time) => k.join_time <= k.begin_time
              /\ IsSet(k.begin_time) /\ IsSet(k.finish_time) => k.begin_time <= k.finish_time
              /\ IsSet(k.join_time) /\ IsSet(k.finish_time) => k.join_time <= k.finish_time
    /\ \A c \in DOMAIN sim_customers :
          LET k == sim_customers[c]
          IN  /\ IsSet(k.line_join_time) /\ IsSet(k.service_start_time) =>
                    k.line_join_time <= k.service_start_time
              /\ IsSet(k.service_start_time) /\ IsSet(k.service_end_time) =>
                    k.service_start_time <= k.service_end_time
              /\ IsSet(k.line_join_time) /\ IsSet(k.service_end_time) =>
                    k.line_join_time <= k.service_end_time

\* A customer of the event-driven run has all three times set, after a wait.
MonotonicityWitness ==
    \E c \in DOMAIN customers :
        /\ IsSet(customers[c].join_time) /\ IsSet(customers[c].finish_time)
        /\ customers[c].join_time < customers[c].begin_time
        /\ customers[c].begin_time < customers[c].finish_time

\* The open lines below capacity a customer of n items may use under the
\* normal rule, written out from the design document.
NormallyEligible(ls, capacity, n) ==
    {i \in DOMAIN ls : /\ ls[i].is_open
                       /\ ls[i].people_in_line < capacity
                       /\ (n > 7 => ls[i].type # "express")}

\* C3 (eligibility): a customer with more than 7 items is put on an express
\* line only by the fallback, that is only when no open line below capacity
\* that is not an express line exists; in the SimPy variant only when the
\* store has no other line.
Eligibility ==
    /\ last_assign.customer # 0 =>
          LET n == customers[last_assign.customer].number_of_items
              before == last_assign.before
          IN  n > 7 /\ before[last_assign.line].type = "express" =>
                 /\ last_assign.fallback
                 /\ NormallyEligible(before, config.line_capacity, n) = {}
    /\ sim_last_assign.customer # 0 =>
          LET n == sim_customers[sim_last_assign.customer].num_items
              before == sim_last_assign.before
          IN  n > 7 /\ before[sim_last_assign.line].line_type = "express" =>
                 \A i \in DOMAIN before : before[i].line_type = "express"

\* A customer with more than 7 items was kept off an open express line that
\* was shorter than the line it got.
EligibilityWitness ==
    /\ last_assign.customer # 0
    /\ customers[last_assign.customer].number_of_items > 7
    /\ ~last_assign.fallback
    /\ \E i \in DOMAIN last_assign.before :
          /\ last_assign.before[i].type = "express"
          /\ last_assign.before[i].is_open
          /\ last_assign.before[i].people_in_line <
                last_assign.before[last_assign.line].people_in_line

\* C4 (load balancing, event-driven store): the line assign_customer chose
\* had, before the increment, no more people than any line eligible for the
\* customer at that moment.
LoadBalancing ==
    last_assign.customer # 0 =>
        LET n == customers[last_assign.customer].number_of_items
            before == last_assign.before
        IN  \A j \in NormallyEligible(before, config.line_capacity, n) :
                before[last_assign.line].people_in_line <= before[j].people_in_line

\* The chosen line was not the first eligible one of the list: an eligible
\* line before it was longer.
LoadBalancingWitness ==
    /\ last_assign.customer # 0
    /\ ~last_assign.fallback
    /\ \E j \in NormallyEligible(last_assign.before, config.line_capacity,
                   customers[last_assign.customer].number_of_items) :
          /\ j < last_assign.line
          /\ last_assign.before[j].people_in_line >
                last_assign.before[last_assign.line].people_in_line

\* The people on a SimPy line: the customer in service, if any, and those
\* waiting.
Occupancy(line) == Len(line.users) + Len(line.queue)

\* C5 (load balancing, SimPy variant): the line find_shortest_line returned
\* had, at that moment, no more people on it (in service or waiting) than
\* any other eligible line.
SimLoadBalancing ==
    sim_last_assign.customer # 0 =>
        LET n == sim_customers[sim_last_assign.customer].num_items
            before == sim_last_assign.before
        IN  \A j \in DOMAIN before :
                (n > 7 => before[j].line_type # "express") =>
                    Occupancy(before[sim_last_assign.line]) <= Occupancy(before[j])

\* The service time the design document's table gives.
TableServiceTime(type, n) ==
    IF type = "cashier" THEN n + 7
    ELSE IF type = "express" THEN (IF n <= 7 THEN n + 4 ELSE n + 7)
    ELSE 2 * n + 1

\* The item counts of the customers the run has created so far.
ItemCountsSeen ==
    {customers[c].number_of_items : c \in DOMAIN customers}
    \cup {sim_customers[c].num_items : c \in DOMAIN sim_customers}

\* C6 (service-time exactness): for the item count n of every customer, the
\* service time of each line type is what the table gives: n+7 cashier,
\* n+4 express (n <= 7), n+7 express (n > 7), 2n+1 self-serve; in the
\* store's three formulas and in CheckoutLine.get_service_time alike.
ServiceTimeExactness ==
    \A n \in ItemCountsSeen :
        /\ get_cashier_time(n) = TableServiceTime("cashier", n)
        /\ get_express_time(n) = TableServiceTime("express", n)
        /\ get_self_serve_time(n) = TableServiceTime("self_serve", n)
        /\ \A type \in LineTypes : get_service_time(type, n) = TableServiceTime(type, n)

JoinEntry(t, n) == [kind |-> "Join", timestamp |-> t, num_items |-> n, line |-> 0]

\* C7 (scenario A): one cashier line of capacity 10 and Joins at t=0 of a
\* 3-item and a 5-item customer: service 0..10 and 10..22, max_wait 10.
ScenarioA ==
    /\ config = [cashier_count |-> 1, express_count |-> 0,
                 self_serve_count |-> 0, line_capacity |-> 10]
    /\ event_file = <<JoinEntry(0, 3), JoinEntry(0, 5)>>
    /\ pc = "returned" /\ Len(results) = 1
    => /\ customers[1].begin_time = 0 /\ customers[1].finish_time = 10
       /\ customers[2].begin_time = 10 /\ customers[2].finish_time = 22
       /\ results[1].stats.max_wait = 10

ScenarioC ==
    variant = "event" /\ event_file = <<>> =>
        /\ processed = <<>> /\ events = <<>>
        /\ pc # "raised"
        /\ \A i \in DOMAIN results :
              results[i].status = "returned" /\ results[i].stats.num_customers = 0
        /\ pc = "returned" => Len(results) >= 1

\* run has returned on the empty event file.
ScenarioCWitness ==
    variant = "event" /\ event_file = <<>> /\ pc = "returned" /\ Len(results) = 1

\* C10 (determinism): a second invocation of run on the same simulation
\* object, with the same event file, ends as the first one did and with the
\* same statistics.
Determinism == Len(results) = 2 => results[2] = results[1]

\* ------------------------------------------------------------------- spec

\* The event the last call of remove() returned.
LastHandled == handled[Len(handled)]

\* C11 -- Event ordering: whenever the driver removes an event, that event
\* has the smallest timestamp of all pending events and, among the pending
\* events of that timestamp, it is the one that was added first.
EventOrdering ==
    [][handled' # handled =>
          LET e == handled'[Len(handled')]
          IN  /\ \E i \in DOMAIN events : events[i] = e
              /\ \A i \in DOMAIN events :
                    \/ e.timestamp < events[i].timestamp
                    \/ e.timestamp = events[i].timestamp /\ e.seq <= events[i].seq]_vars

\* C11, its case: an event was removed while an initial Join and a spawned
\* Begin of the same timestamp are both pending, the Begin added later.
EventOrderingWitness ==
    /\ handled # <<>>
    /\ \E i, j \in DOMAIN events :
          /\ events[i].kind = "Join" /\ events[j].kind = "Begin"
          /\ events[i].timestamp = events[j].timestamp
          /\ events[i].timestamp = LastHandled.timestamp
          /\ events[i].seq < events[j].seq

\* C12 -- Monotonic clock: the timestamps of the events removed by one
\* invocation of run never decrease, the clock is the timestamp of the last
\* one, and no pending event (spawned ones included) is earlier than it.
MonotonicClock ==
    /\ \A i, j \in DOMAIN processed :
          i < j => processed[i].timestamp <= processed[j].timestamp
    /\ processed # <<>> =>
          /\ stats.total_time = processed[Len(processed)].timestamp
          /\ \A i \in DOMAIN events :
                processed[Len(processed)].timestamp <= events[i].timestamp

\* C12, its case: the clock has advanced, a spawned Finish has been handled
\* and a spawned event is pending.
MonotonicClockWitness ==
    /\ Len(processed) >= 3
    /\ processed[1].timestamp < processed[Len(processed)].timestamp
    /\ \E i \in DOMAIN processed : processed[i].kind = "Finish"
    /\ \E i \in DOMAIN events : events[i].kind \in {"Begin", "Finish"}

\* How many times run has been invoked.
Invocations == Len(results) + (IF pc = "loop" THEN 1 ELSE 0)

Termination ==
    /\ [](pc = "returned" => events = <<>>)
    /\ [](sim_pc = "returned" => env_queue = <<>>)
    /\ (pc = "loop") ~> (pc \in {"returned", "raised"})
    /\ (sim_pc = "running") ~> (sim_pc \in {"returned", "raised"})

\* C14, its case: run has returned after a loop that handled spawned events
\* and left the queue empty.
TerminationWitness ==
    /\ pc = "returned"
    /\ events = <<>>
    /\ Len(processed) >= 6
    /\ \E i \in DOMAIN processed : processed[i].kind = "Finish"

\* C15 -- Closed lines accept nobody: a line that is closed stays closed,
\* its people_in_line never grows, and no customer is mapped to it, whichever
\* path of assign_customer makes the choice.
ClosedLinesAcceptNobody ==
    [][/\ \A i \in DOMAIN lines :
             ~lines[i].is_open =>
                /\ ~lines'[i].is_open
                /\ lines'[i].people_in_line <= lines[i].people_in_line
       /\ \A c \in DOMAIN customer_to_line :
             customer_to_line'[c] # customer_to_line[c] =>
                lines[customer_to_line'[c]].is_open]_vars

\* C15, its case: a Join was handled after a Close, and the closed line was
\* shorter than the line the customer got.
ClosedLinesAcceptNobodyWitness ==
    /\ last_assign.customer # 0
    /\ \E i \in DOMAIN last_assign.before :
          /\ ~last_assign.before[i].is_open
          /\ last_assign.before[i].people_in_line <
                last_assign.before[last_assign.line].people_in_line

\* Customer c is on a line that has been closed and has not finished: c was
\* in service or in the line's queue when the line was closed.
OnClosedLine(c) ==
    /\ c \in DOMAIN customers
    /\ customer_to_line[c] # 0
    /\ ~lines[customer_to_line[c]].is_open
    /\ ~IsSet(customers[c].finish_time)

\* The customers a Close has caught on their line and who have yet to finish.
CaughtByClose == {c \in DOMAIN customers : OnClosedLine(c)}

\* C16 -- Close does not strand customers: the customers who are in service
\* or waiting on a line when the line is closed all finish, so that when an
\* invocation of run has ended no unfinished customer is left on a closed
\* line.  (Nobody joins a closed line, so the customers on one are those
\* the Close caught there.)
CloseDoesNotStrand ==
    pc \in {"returned", "raised"} => CaughtByClose = {}

\* The customers who joined line l and have not finished.
OnLine(l) ==
    {c \in DOMAIN customers :
        /\ customer_to_line[c] = l
        /\ IsSet(customers[c].join_time)
        /\ ~IsSet(customers[c].finish_time)}

Waiting(l) == {lines[l].queue[i] : i \in DOMAIN lines[l].queue}

\* C17 -- Line occupancy: between event handlings every line is either empty
\* (people_in_line = 0, nobody in its queue, nobody on it) or has
\* people_in_line = 1 + len(queue), with exactly one customer on it who is
\* not in the queue: the one in the service slot.
LineOccupancy ==
    \A l \in DOMAIN lines :
        \/ /\ lines[l].people_in_line = 0
           /\ lines[l].queue = <<>>
           /\ OnLine(l) = {}
        \/ /\ lines[l].people_in_line = 1 + Len(lines[l].queue)
           /\ Cardinality(Waiting(l)) = Len(lines[l].queue)
           /\ Waiting(l) \subseteq OnLine(l)
           /\ Cardinality(OnLine(l) \ Waiting(l)) = 1

\* C17, its case: a line with a customer waiting behind the one in the
\* service slot, after a Finish on that line has already popped its queue.
LineOccupancyWitness ==
    \E l \in DOMAIN lines :
        /\ lines[l].people_in_line = 2
        /\ Len(lines[l].queue) = 1
        /\ \E c \in DOMAIN customers :
              /\ customer_to_line[c] = l
              /\ IsSet(customers[c].finish_time)
              /\ \E d \in OnLine(l) \ Waiting(l) :
                    customers[d].join_time < customers[c].finish_time

\* The state of a customer of the event-driven variant, by the times set:
\* 0 Arrived, 1 Joined, 2 Serving, 3 Finished; -1 when the times set are
\* not a beginning of join_time, begin_time, finish_time.
Stage(c) ==
    LET j == IsSet(c.join_time)
        b == IsSet(c.begin_time)
        f == IsSet(c.finish_time)
    IN  IF ~j /\ ~b /\ ~f THEN 0
        ELSE IF j /\ ~b /\ ~f THEN 1
        ELSE IF j /\ b /\ ~f THEN 2
        ELSE IF j /\ b /\ f THEN 3
        ELSE -1

\* The same for a customer of the SimPy variant: line_join_time,
\* service_start_time, service_end_time.
SimStage(c) ==
    LET j == IsSet(c.line_join_time)
        b == IsSet(c.service_start_time)
        f == IsSet(c.service_end_time)
    IN  IF ~j /\ ~b /\ ~f THEN 0
        ELSE IF j /\ ~b /\ ~f THEN 1
        ELSE IF j /\ b /\ ~f THEN 2
        ELSE IF j /\ b /\ f THEN 3
        ELSE -1

\* How many events of the given kind were handled for customer c.
HandledFor(hs, kind, c) ==
    Cardinality({i \in DOMAIN hs : hs[i].kind = kind /\ hs[i].customer = c})

\* C18 -- Per-customer state machine: in every step each customer stays in
\* its state or moves to the next one of Arrived, Joined, Serving, Finished;
\* a time that is set keeps its value; and Join, Begin and Finish are each
\* handled at most once per customer.
CustomerStateMachine ==
    [][/\ \A c \in DOMAIN customers :
             /\ Stage(customers[c]) >= 0
             /\ Stage(customers'[c]) \in {Stage(customers[c]), Stage(customers[c]) + 1}
             /\ IsSet(customers[c].join_time) =>
                   customers'[c].join_time = customers[c].join_time
             /\ IsSet(customers[c].begin_time) =>
                   customers'[c].begin_time = customers[c].begin_time
             /\ IsSet(customers[c].finish_time) =>
                   customers'[c].finish_time = customers[c].finish_time
       /\ \A c \in DOMAIN customers' :
             \A kind \in {"Join", "Begin", "Finish"} :
                HandledFor(handled', kind, c) <= 1
       /\ \A c \in DOMAIN sim_customers :
             /\ SimStage(sim_customers[c]) >= 0
             /\ SimStage(sim_customers'[c]) \in
                   {SimStage(sim_customers[c]), SimStage(sim_customers[c]) + 1}
             /\ IsSet(sim_customers[c].line_join_time) =>
                   sim_customers'[c].line_join_time = sim_customers[c].line_join_time
             /\ IsSet(sim_customers[c].service_start_time) =>
                   sim_customers'[c].service_start_time =
                      sim_customers[c].service_start_time
             /\ IsSet(sim_customers[c].service_end_time) =>
                   sim_customers'[c].service_end_time =
                      sim_customers[c].service_end_time]_vars

\* C18, its case: a SimPy customer has gone through all its states after
\* waiting behind another one, who has finished too.
CustomerStateMachineWitness ==
    \E c, d \in DOMAIN sim_customers :
        /\ c # d
        /\ SimStage(sim_customers[c]) = 3
        /\ SimStage(sim_customers[d]) = 3
        /\ sim_customers[c].line_join_time < sim_customers[c].service_start_time
        /\ sim_customers[c].assigned_line = sim_customers[d].assigned_line

\* The customers whose Finish this invocation of run has handled.
FinishedInRun ==
    {processed[i].customer : i \in {j \in DOMAIN processed : processed[j].kind = "Finish"}}

\* The wait time of the glossary: from joining a line to beginning service.
EventMaxWait ==
    pc = "returned" /\ FinishedInRun # {} =>
        stats.max_wait =
            max_of({customers[c].begin_time - customers[c].join_time :
                       c \in FinishedInRun})

SimMaxWait ==
    sim_pc = "returned" /\ SimCompleted # {} =>
        sim_results.max_wait_time =
            max_of({sim_customers[c].service_start_time
                       - sim_customers[c].line_join_time : c \in SimCompleted})

\* C19 -- The max-wait statistic a run returns is the largest wait time,
\* begin_time - join_time, of the customers who finished; in both variants
\* and also for customers who join at time 0.
MaxWaitStatistic == EventMaxWait /\ SimMaxWait

\* C20 -- The results of a SimPy run hold one line_stats entry per
\* configured line, for every store and every number of customers, zero
\* included.
LineStatsPerLine ==
    sim_pc = "returned" => Len(sim_results.line_stats) = Len(sim_lines)

QueueUnderflow ==
    [][queue_calls' # queue_calls /\ added' = added /\ PQIsEmpty(events) =>
          /\ remove_result'.error = "EmptyQueueError"
          /\ remove_result'.value = <<>>
          /\ handled' = handled
          /\ PQIsEmpty(events')]_vars

\* C22, its case: remove() has failed on a queue that had held events and
\* had been emptied by earlier calls of remove().
QueueUnderflowWitness ==
    /\ variant = "queue"
    /\ remove_result.error = "EmptyQueueError"
    /\ handled # <<>>
    /\ Len(handled) = Len(added)
    /\ events = <<>>

\* The driver on its own never invokes a transition against inconsistent
\* state.
NoDefect ==
    pc = "loop" /\ events # <<>> =>
        ~Inconsistent(Head(events), lines, customer_to_line, customers)

\* C23 -- Inconsistent transitions are fatal: when the event the driver
\* removes finds inconsistent state (a Finish for a customer who is not in
\* the service slot of its line, say), its transition raises
\* InvalidEventError and changes nothing, run ends there without returning
\* statistics, and that invocation handles no further event.
InconsistentIsFatal ==
    [][handled' # handled =>
          /\ pc = "loop"
          /\ Inconsistent(Head(events), lines, customer_to_line, customers) =>
                /\ pc' = "raised"
                /\ results' = Append(results,
                                 [status |-> "raised", stats |-> NoStats,
                                  error |-> "InvalidEventError"])
                /\ lines' = lines
                /\ customers' = customers
                /\ customer_to_line' = customer_to_line
                /\ added' = added]_vars

\* C23, its case: a run has ended on the InvalidEventError of a Finish for a
\* customer who had finished already, with other events still pending.
InconsistentIsFatalWitness ==
    /\ pc = "raised"
    /\ results[Len(results)].error = "InvalidEventError"
    /\ LastHandled.kind = "Finish"
    /\ IsSet(customers[LastHandled.customer].finish_time)
    /\ events # <<>>

\* C24 -- Immediate service iff the line was empty: when a Join is handled
\* (and assign_customer finds a line), join_time is the Join's timestamp and
\* either the chosen line had nobody on it, the Join spawns exactly a Begin
\* for the customer at its own timestamp and the line's queue is left alone,
\* or the line had somebody on it, the customer is appended to the tail of
\* its queue and nothing is spawned.  A Begin sets begin_time to its
\* timestamp, so a customer served at once has begin_time = join_time.
ImmediateService ==
    [][handled' # handled /\ pc' # "raised" =>
          LET e == handled'[Len(handled')]
              c == e.customer
          IN  /\ e.kind = "Begin" => customers'[c].begin_time = e.timestamp
              /\ e.kind = "Join" =>
                    LET b == customer_to_line'[c]
                    IN  /\ customers'[c].join_time = e.timestamp
                        /\ lines'[b].people_in_line = lines[b].people_in_line + 1
                        /\ IF lines[b].people_in_line = 0
                           THEN /\ Len(added') = Len(added) + 1
                                /\ added'[Len(added')].kind = "Begin"
                                /\ added'[Len(added')].customer = c
                                /\ added'[Len(added')].timestamp = e.timestamp
                                /\ lines'[b].queue = lines[b].queue
                           ELSE /\ added' = added
                                /\ lines'[b].queue = Append(lines[b].queue, c)]_vars

\* C24, its case: the last Join put its customer at the tail of a queue
\* where another customer was waiting already, and an earlier customer of
\* that line had been served at once.
ImmediateServiceWitness ==
    /\ handled # <<>>
    /\ LastHandled.kind = "Join"
    /\ last_assign.customer = LastHandled.customer
    /\ Len(lines[last_assign.line].queue) = 2
    /\ lines[last_assign.line].queue[2] = last_assign.customer
    /\ \E d \in DOMAIN customers :
          /\ customer_to_line[d] = last_assign.line
          /\ IsSet(customers[d].begin_time)
          /\ customers[d].begin_time = customers[d].join_time

\* The place of a line type in the order the lines are created in.
TypeRank(type) ==
    IF type = "cashier" THEN 1 ELSE IF type = "express" THEN 2 ELSE 3

\* C25 -- Stable tie-break: the lines are numbered in creation order, all
\* cashier lines, then all express lines, then all self-serve lines, and the
\* line assign_customer chooses is the lowest-numbered one of the lines it
\* may choose from (the eligible ones, or the open ones on the fallback)
\* that have the fewest people_in_line.  find_shortest_line does the same
\* with the lines it compares, by the length of their waiting queues.
StableTieBreak ==
    /\ \A i, j \in DOMAIN lines :
          i < j => TypeRank(lines[i].type) <= TypeRank(lines[j].type)
    /\ \A i, j \in DOMAIN sim_lines :
          i < j => TypeRank(sim_lines[i].line_type) <= TypeRank(sim_lines[j].line_type)
    /\ last_assign.customer # 0 =>
          LET before == last_assign.before
              b == last_assign.line
              cand == CandidateLines(before, config.line_capacity,
                         customers[last_assign.customer].number_of_items)
          IN  /\ b \in cand
              /\ \A j \in cand :
                    /\ before[b].people_in_line <= before[j].people_in_line
                    /\ before[j].people_in_line = before[b].people_in_line => b <= j
    /\ sim_last_assign.customer # 0 =>
          LET before == sim_last_assign.before
              b == sim_last_assign.line
              cand == SimEligibleLines(before,
                         sim_customers[sim_last_assign.customer].num_items)
          IN  cand # {} =>
                 /\ b \in cand
                 /\ \A j \in cand :
                       /\ Len(before[b].queue) <= Len(before[j].queue)
                       /\ Len(before[j].queue) = Len(before[b].queue) => b <= j

\* C25, its case: assign_customer chose the express line of a store with a
\* cashier, an express and a self-serve line, when the express line and the
\* self-serve line were both empty and the cashier line was not.
StableTieBreakWitness ==
    /\ last_assign.customer # 0
    /\ Len(last_assign.before) = 3
    /\ last_assign.line = 2
    /\ last_assign.before[1].people_in_line > 0
    /\ last_assign.before[2].people_in_line = 0
    /\ last_assign.before[3].people_in_line = 0
    /\ last_assign.before[3].is_open

\* C26 -- Service duration is honoured: a customer who has finished spent,
\* between begin_time and finish_time, exactly the service time of the line
\* they were assigned to, for that line's type and their number of items;
\* and the step that processes the Begin is the step that schedules the
\* Finish, at begin_time plus that service time.  In the SimPy variant the
\* granted request is the Begin and the service timeout is the Finish.
ServiceDurationHonoured ==
    [][/\ \A c \in DOMAIN customers' :
             IsSet(customers'[c].finish_time) =>
                customers'[c].finish_time - customers'[c].begin_time
                   = line_service_time(lines'[customer_to_line'[c]].type,
                                       customers'[c].number_of_items)
       /\ \A c \in DOMAIN sim_customers' :
             IsSet(sim_customers'[c].service_end_time) =>
                sim_customers'[c].service_end_time - sim_customers'[c].service_start_time
                   = get_service_time(sim_lines'[sim_customers'[c].assigned_line].line_type,
                                      sim_customers'[c].num_items)
       /\ handled' # handled /\ pc' # "raised" /\ handled'[Len(handled')].kind = "Begin" =>
             LET e == handled'[Len(handled')]
                 c == e.customer
             IN  /\ Len(added') = Len(added) + 1
                 /\ added'[Len(added')].kind = "Finish"
                 /\ added'[Len(added')].customer = c
                 /\ added'[Len(added')].timestamp
                       = e.timestamp
                         + line_service_time(lines[customer_to_line[c]].type,
                                             customers[c].number_of_items)
                 /\ \E i \in DOMAIN events' : events'[i] = added'[Len(added')]
       /\ \A c \in DOMAIN sim_customers :
             c \in DOMAIN sim_customers'
             /\ sim_customers'[c].service_start_time # sim_customers[c].service_start_time =>
                /\ sim_customers'[c].service_start_time = env_now'
                /\ \E i \in DOMAIN env_queue' :
                      env_queue'[i] =
                         SimEvent(env_now'
                                  + get_service_time(
                                       sim_lines[sim_customers[c].assigned_line].line_type,
                                       sim_customers[c].num_items),
                                  1, "service", c)]_vars

\* C26, its case: a customer with nine items who had to wait has finished on
\* a self-serve line, nineteen units after beginning.
ServiceDurationHonouredWitness ==
    \E c \in DOMAIN customers :
       /\ IsSet(customers[c].finish_time)
       /\ customers[c].number_of_items = 9
       /\ lines[customer_to_line[c]].type = "self_serve"
       /\ customers[c].begin_time > customers[c].join_time
       /\ customers[c].finish_time = customers[c].begin_time + 19

\* The Join events handled so far whose customers were put on line l, in the
\* order they were handled: the order in which the customers joined the line.
JoinsOn(l) ==
    SelectSeq(handled,
              LAMBDA e : e.kind = "Join" /\ customer_to_line[e.customer] = l)

LaterOf(a, b) == IF a >= b THEN a ELSE b

\* Where in the events handled so far the Begin of customer c is.
BeginPos(c) ==
    CHOOSE i \in DOMAIN handled :
        handled[i].kind = "Begin" /\ handled[i].customer = c

\* C27 -- FIFO hand-over within a line: of two customers who joined the same
\* line one right after the other, the later one begins service only after
\* the earlier one began, and a later one who had to wait begins exactly
\* when the earlier one finishes; the customers waiting on a line stand in
\* its queue in the order they joined.  In the SimPy variant customers
\* request lines in the order of their ids.
FIFOHandOver ==
    /\ \A l \in DOMAIN lines :
          /\ \A i \in 2..Len(JoinsOn(l)) :
                LET p == JoinsOn(l)[i - 1].customer
                    d == JoinsOn(l)[i].customer
                IN  /\ IsSet(customers[d].begin_time) =>
                          /\ IsSet(customers[p].begin_time)
                          /\ BeginPos(p) < BeginPos(d)
                    /\ /\ IsSet(customers[d].begin_time)
                       /\ customers[d].begin_time > customers[d].join_time
                       => /\ IsSet(customers[p].finish_time)
                          /\ customers[d].begin_time = customers[p].finish_time
          /\ \A i, j \in DOMAIN lines[l].queue :
                i < j =>
                   \E a, b \in DOMAIN JoinsOn(l) :
                      /\ a < b
                      /\ JoinsOn(l)[a].customer = lines[l].queue[i]
                      /\ JoinsOn(l)[b].customer = lines[l].queue[j]
    /\ \A c, d \in DOMAIN sim_customers :
          /\ c < d
          /\ sim_customers[d].assigned_line # 0
          /\ sim_customers[c].assigned_line = sim_customers[d].assigned_line
          /\ \A k \in DOMAIN sim_customers :
                c < k /\ k < d =>
                   sim_customers[k].assigned_line # sim_customers[d].assigned_line
          /\ IsSet(sim_customers[d].service_start_time)
          => /\ IsSet(sim_customers[c].service_start_time)
             /\ IsSet(sim_customers[c].service_end_time)
             /\ sim_customers[c].service_start_time < sim_customers[d].service_start_time
             /\ sim_customers[d].service_start_time
                   = LaterOf(sim_customers[d].line_join_time,
                             sim_customers[c].service_end_time)

\* C27, its case: three customers joined one line and the third, who had to
\* wait, has begun at the moment the second finished.
FIFOHandOverWitness ==
    \E l \in DOMAIN lines :
       /\ Len(JoinsOn(l)) = 3
       /\ LET p == customers[JoinsOn(l)[2].customer]
              d == customers[JoinsOn(l)[3].customer]
          IN  /\ IsSet(d.begin_time)
              /\ d.begin_time > d.join_time
              /\ d.begin_time = p.finish_time
              /\ p.begin_time > p.join_time

\* C28 -- Close changes only the open flag: the step that processes a Close
\* of a line leaves that line closed and spawns no event; the line's
\* people_in_line and queue, every other line, the customers' timestamps and
\* the customers' lines are as they were, and the pending events are the
\* ones that were pending behind the Close.
CloseChangesOnlyOpenFlag ==
    [][handled' # handled /\ handled'[Len(handled')].kind = "Close" =>
          LET l == handled'[Len(handled')].line
          IN  /\ pc' # "raised"
              /\ lines'[l].is_open = FALSE
              /\ lines' = [lines EXCEPT ![l].is_open = FALSE]
              /\ added' = added
              /\ events' = Tail(events)
              /\ customers' = customers
              /\ customer_to_line' = customer_to_line]_vars

\* C28, its case: a Close has just been processed for an open line on which
\* one customer was in service and another waited, in a store with a second
\* line; the waiting customer is waiting still.
CloseChangesOnlyOpenFlagWitness ==
    /\ handled # <<>>
    /\ LastHandled.kind = "Close"
    /\ Len(lines) >= 2
    /\ ~lines[LastHandled.line].is_open
    /\ lines[LastHandled.line].people_in_line = 2
    /\ Len(lines[LastHandled.line].queue) = 1
    /\ \E i \in DOMAIN lines : lines[i].is_open

\* C29 -- total_time: the total_time run returns is the timestamp of the
\* last event it processed, no event it processed has a larger timestamp,
\* and it is 0 when run processed no event.  The same holds of the running
\* value while the loop is at work.
TotalTimeIsLastTimestamp ==
    /\ pc \in {"loop", "returned"} =>
          /\ processed = <<>> => stats.total_time = 0
          /\ processed # <<>> =>
                /\ stats.total_time = processed[Len(processed)].timestamp
                /\ \A i \in DOMAIN processed :
                      processed[i].timestamp <= stats.total_time
    /\ pc = "returned" =>
          /\ results[Len(results)].status = "returned"
          /\ results[Len(results)].stats.total_time = stats.total_time

\* C29, its case: run has returned after processing events of timestamp 0
\* and, last, an event of a timestamp beyond every arrival.
TotalTimeIsLastTimestampWitness ==
    /\ pc = "returned"
    /\ Len(processed) >= 4
    /\ processed[1].timestamp = 0
    /\ results[Len(results)].stats.total_time > 11
    /\ \E i \in DOMAIN processed :
          processed[i].timestamp > 0
          /\ processed[i].timestamp < results[Len(results)].stats.total_time

\* The customers this invocation of run created from its event file.
ThisRunCustomers ==
    {c \in DOMAIN customers : c > Len(customers) - Len(NewCustomers(event_file))}

\* The distinct customers of the Join events in a sequence of events.
JoinedIn(evs) == {evs[i].customer : i \in {j \in DOMAIN evs : evs[j].kind = "Join"}}

\* C30 -- num_customers: the num_customers run returns is the number of
\* distinct customers in the Join events of the run, the ones it loaded and
\* any a transition spawned; they are the customers whose Join the run
\* processed, and the number does not depend on whether a customer began or
\* finished service.
NumCustomersCountsJoins ==
    pc = "returned" =>
       /\ results[Len(results)].stats.num_customers
             = Cardinality(JoinedIn(added) \cap ThisRunCustomers)
       /\ results[Len(results)].stats.num_customers
             = Cardinality(JoinedIn(processed))

\* C30, its case: the second invocation of run has returned a count of two
\* for the two customers of its own Join events, beside a Close event, with
\* the two customers of the first invocation in the store as well.
NumCustomersCountsJoinsWitness ==
    /\ pc = "returned"
    /\ Len(results) = 2
    /\ results[2].stats.num_customers = 2
    /\ Len(customers) = 4
    /\ HasClose(event_file)

\* The customers of line l who have a Begin or a Finish pending in the queue.
PendingOn(l) ==
    {c \in DOMAIN customers :
        /\ customer_to_line[c] = l
        /\ \E i \in DOMAIN events :
              events[i].kind \in {"Begin", "Finish"} /\ events[i].customer = c}

\* C31 -- No stranded waiter: between event handlings every line with at
\* least one person has exactly one customer with a Begin or a Finish
\* pending in the queue, and that customer is not one of those waiting in
\* the line's queue; so the customers waiting in a queue are on a line whose
\* coming Finish releases the head of the queue.
NoStrandedWaiter ==
    \A l \in DOMAIN lines :
       /\ lines[l].people_in_line >= 1 =>
             /\ Cardinality(PendingOn(l)) = 1
             /\ \A c \in PendingOn(l) :
                   \A i \in DOMAIN lines[l].queue : lines[l].queue[i] # c
       /\ lines[l].queue # <<>> => lines[l].people_in_line >= 1

\* C31, its case: a customer waits on a line whose customer in service,
\* with the Begin handled and the Finish pending, had waited there as well.
NoStrandedWaiterWitness ==
    \E l \in DOMAIN lines :
       /\ Len(lines[l].queue) = 1
       /\ pc = "loop"
       /\ \E c \in PendingOn(l) :
             /\ IsSet(customers[c].begin_time)
             /\ customers[c].begin_time > customers[c].join_time

\* Customers c and d were created by the same invocation of run.
SameRun(c, d) == (c \in ThisRunCustomers) = (d \in ThisRunCustomers)

\* The service intervals [b1, f1) and [b2, f2) do not overlap; a finish that
\* is not set is a service still going on.
Disjoint(b1, f1, b2, f2) ==
    \/ IsSet(f1) /\ f1 <= b2
    \/ IsSet(f2) /\ f2 <= b1

\* C32 -- One customer in service per line: the service intervals
\* [begin_time, finish_time) of two distinct customers of one run who are
\* assigned to the same line never overlap, in either variant; of two such
\* customers who have begun, one has finished before the other began.
OneInServicePerLine ==
    /\ \A c, d \in DOMAIN customers :
          /\ c # d /\ SameRun(c, d)
          /\ customer_to_line[c] # 0 /\ customer_to_line[c] = customer_to_line[d]
          /\ IsSet(customers[c].begin_time) /\ IsSet(customers[d].begin_time)
          => Disjoint(customers[c].begin_time, customers[c].finish_time,
                      customers[d].begin_time, customers[d].finish_time)
    /\ \A c, d \in DOMAIN sim_customers :
          /\ c # d
          /\ sim_customers[c].assigned_line # 0
          /\ sim_customers[c].assigned_line = sim_customers[d].assigned_line
          /\ IsSet(sim_customers[c].service_start_time)
          /\ IsSet(sim_customers[d].service_start_time)
          => Disjoint(sim_customers[c].service_start_time,
                      sim_customers[c].service_end_time,
                      sim_customers[d].service_start_time,
                      sim_customers[d].service_end_time)

\* C32, its case: in the SimPy variant two customers who arrived at the
\* same moment chose the same line; the first has finished and the second
\* is in service, begun at the moment the first finished.
OneInServicePerLineWitness ==
    \E c, d \in DOMAIN sim_customers :
       /\ c # d
       /\ sim_customers[c].assigned_line # 0
       /\ sim_customers[c].assigned_line = sim_customers[d].assigned_line
       /\ sim_customers[c].line_join_time = sim_customers[d].line_join_time
       /\ IsSet(sim_customers[c].service_end_time)
       /\ IsSet(sim_customers[d].service_start_time)
       /\ ~IsSet(sim_customers[d].service_end_time)
       /\ sim_customers[d].service_start_time = sim_customers[c].service_end_time

\* C33 -- Capacity bound: people_in_line of a line grows only by an
\* assignment, by one; an assignment on the normal path leaves the chosen
\* line with at most line_capacity people, and an assignment that leaves it
\* with more was made on the fallback path, with no open line below
\* capacity eligible for the customer.
CapacityBound ==
    [][\A l \in DOMAIN lines :
          lines'[l].people_in_line > lines[l].people_in_line =>
             LET c == last_assign'.customer
                 eligible == EligibleLines(lines, config.line_capacity,
                                           customers[c].number_of_items)
             IN  /\ handled' # handled
                 /\ handled'[Len(handled')].kind = "Join"
                 /\ handled'[Len(handled')].customer = c
                 /\ last_assign'.line = l
                 /\ last_assign'.before = lines
                 /\ lines'[l].people_in_line = lines[l].people_in_line + 1
                 /\ last_assign'.fallback <=> eligible = {}
                 /\ eligible # {} =>
                       /\ l \in eligible
                       /\ lines'[l].people_in_line <= config.line_capacity
                 /\ lines'[l].people_in_line > config.line_capacity =>
                       /\ eligible = {}
                       /\ lines[l].is_open]_vars

\* C33, its case: the last Join was assigned on the fallback path and its
\* line holds more people than line_capacity, in a store where an earlier
\* customer stands on another line.
CapacityBoundWitness ==
    /\ handled # <<>>
    /\ LastHandled.kind = "Join"
    /\ last_assign.customer = LastHandled.customer
    /\ last_assign.fallback
    /\ lines[last_assign.line].people_in_line > config.line_capacity
    /\ \E l \in DOMAIN lines :
          l # last_assign.line /\ lines[l].people_in_line = config.line_capacity

\* C34 -- No open line: a Join handled while no line is open (every line
\* closed, or a store without lines) ends in the error of assign_customer,
\* the ValueError of min() over an empty list, and not in a line: run is
\* abandoned, no line's people_in_line, queue or is_open has changed, and
\* the customer has no line and no join_time.
NoOpenLineFails ==
    [][/\ handled' # handled
       /\ handled'[Len(handled')].kind = "Join"
       /\ OpenLines(lines) = {}
       => /\ pc' = "raised"
          /\ results' = Append(results, [status |-> "raised", stats |-> NoStats,
                                         error |-> "ValueError"])
          /\ lines' = lines
          /\ customer_to_line' = customer_to_line
          /\ customer_to_line'[handled'[Len(handled')].customer] = 0
          /\ customers' = customers
          /\ last_assign' = last_assign
          /\ added' = added]_vars

\* C34, its case: a Join has just failed in a store with lines, all of them
\* closed, one of them with a customer on it.
NoOpenLineFailsWitness ==
    /\ pc = "raised"
    /\ handled # <<>>
    /\ LastHandled.kind = "Join"
    /\ results[Len(results)].error = "ValueError"
    /\ Len(lines) >= 1
    /\ OpenLines(lines) = {}
    /\ \E l \in DOMAIN lines : lines[l].people_in_line >= 1

\* C35 -- Frame of assignment: a successful call of assign_customer raises
\* people_in_line of exactly one line, the line it returns, by exactly 1 and
\* appends at most the customer, once, to that line's queue; every other
\* line, every is_open flag and the lookup map are as before the call.  The
\* Join that made the call leaves the lines as the call left them and
\* enters the returned line in the map for that customer alone.
FrameOfAssignment ==
    [][/\ handled' # handled
       /\ handled'[Len(handled')].kind = "Join"
       /\ pc' # "raised"
       => LET c == handled'[Len(handled')].customer
              call == assign_customer(lines, customer_to_line, config.line_capacity,
                                      c, customers[c].number_of_items)
              b == call.best_line
          IN  /\ b \in DOMAIN lines
              /\ DOMAIN call.lines = DOMAIN lines
              /\ call.lines[b].people_in_line = lines[b].people_in_line + 1
              /\ \/ call.lines[b].queue = lines[b].queue
                 \/ call.lines[b].queue = Append(lines[b].queue, c)
              /\ \A l \in DOMAIN lines :
                    /\ call.lines[l].is_open = lines[l].is_open
                    /\ call.lines[l].type = lines[l].type
                    /\ l # b => call.lines[l] = lines[l]
              /\ call.customer_to_line = customer_to_line
              /\ lines' = call.lines
              /\ customer_to_line' = [customer_to_line EXCEPT ![c] = b]]_vars

\* C35, its case: the last Join went to the second of two lines, the first
\* being closed, and its customer was appended to the second line's queue
\* behind the customer in service.
FrameOfAssignmentWitness ==
    /\ handled # <<>>
    /\ LastHandled.kind = "Join"
    /\ last_assign.customer = LastHandled.customer
    /\ Len(lines) = 2
    /\ last_assign.line = 2
    /\ lines[2].people_in_line = 2
    /\ lines[2].queue = <<last_assign.customer>>
    /\ ~lines[1].is_open

\* The events of one kind among the events handled so far.
HandledOf(kind) == SelectSeq(handled, LAMBDA e : e.kind = kind)

\* C36 -- Store returns to empty: when run returns on an event file without
\* Close events, every line has people_in_line 0 and an empty queue, and as
\* many Finish events have been handled as Join events: every increment of
\* a Join has met the one decrement of its customer's Finish.
StoreReturnsToEmpty ==
    pc = "returned" /\ ~HasClose(event_file) =>
       /\ \A l \in DOMAIN lines :
             lines[l].people_in_line = 0 /\ lines[l].queue = <<>>
       /\ Len(HandledOf("Finish")) = Len(HandledOf("Join"))
       /\ \A i \in DOMAIN handled :
             handled[i].kind = "Join" =>
                Cardinality({j \in DOMAIN handled :
                                /\ handled[j].kind = "Finish"
                                /\ handled[j].customer = handled[i].customer}) = 1
       /\ events = <<>>

\* C36, its case: run has returned on an event file of three Join events,
\* two of whose customers shared a line, one of them waiting for the other.
StoreReturnsToEmptyWitness ==
    /\ pc = "returned" /\ ~HasClose(event_file)
    /\ Len(event_file) = 3
    /\ Len(lines) >= 1
    /\ \E c, d \in ThisRunCustomers :
          /\ c # d
          /\ customer_to_line[c] = customer_to_line[d]
          /\ customers[d].begin_time > customers[d].join_time
          /\ customers[d].begin_time = customers[c].finish_time

\* The customers who have finished service on line l of the SimPy store.
ServedOn(l) == {c \in SimCompleted : sim_customers[c].assigned_line = l}

\* The sum of the service times line l takes for the customers in S.
RECURSIVE SumServiceTimes(_, _)
SumServiceTimes(S, l) ==
    IF S = {} THEN 0
    ELSE LET c == CHOOSE x \in S : TRUE
         IN  get_service_time(sim_lines[l].line_type, sim_customers[c].num_items)
             + SumServiceTimes(S \ {c}, l)

\* The sum of customers_served over the first n lines.
RECURSIVE SumServed(_)
SumServed(n) ==
    IF n = 0 THEN 0 ELSE sim_lines[n].customers_served + SumServed(n - 1)

\* C37 -- Per-line accounting in the SimPy variant: when run_simulation has
\* returned, customers_served summed over the lines is completed_customers,
\* each line has served exactly the customers who finished on it and its
\* total_service_time is the sum of their service times (which is the sum
\* of the time they spent in service); line_stats, where it is reported,
\* carries these numbers.
PerLineAccounting ==
    sim_pc = "returned" =>
       /\ SumServed(Len(sim_lines)) = sim_results.completed_customers
       /\ sim_results.completed_customers = Cardinality(SimCompleted)
       /\ \A l \in DOMAIN sim_lines :
             /\ sim_lines[l].customers_served = Cardinality(ServedOn(l))
             /\ sim_lines[l].total_service_time = SumServiceTimes(ServedOn(l), l)
       /\ \A c \in SimCompleted :
             sim_customers[c].service_end_time - sim_customers[c].service_start_time
                = get_service_time(sim_lines[sim_customers[c].assigned_line].line_type,
                                   sim_customers[c].num_items)
       /\ \A l \in DOMAIN sim_results.line_stats :
             /\ sim_results.line_stats[l].customers_served
                   = sim_lines[l].customers_served
             /\ sim_results.line_stats[l].total_service_time
                   = sim_lines[l].total_service_time

\* C37, its case: run_simulation has returned in a store of two lines or
\* more where one line served two customers, one of whom had waited, and
\* another line served none.
PerLineAccountingWitness ==
    /\ sim_pc = "returned"
    /\ Len(sim_lines) >= 2
    /\ sim_results.completed_customers = 2
    /\ \E l \in DOMAIN sim_lines : sim_lines[l].customers_served = 2
    /\ \E c \in SimCompleted :
          sim_customers[c].service_start_time > sim_customers[c].line_join_time

\* The moment the last customer of the SimPy run finished service (0 with
\* no customer).
LastServiceEnd ==
    IF SimCompleted = {} THEN 0
    ELSE max_of({sim_customers[c].service_end_time : c \in SimCompleted})

\* C38 -- End time of the SimPy run: run_simulation returns only when every
\* customer has finished service and the monitor has taken all of its
\* max_recordings samples, and the simulation_end_time it reports is the
\* later of the last service_end_time and max_recordings * interval, also
\* when every customer finished earlier.
EndTimeOfSimPyRun ==
    sim_pc = "returned" =>
       /\ SimCompleted = DOMAIN sim_customers
       /\ recordings = max_recordings
       /\ env_now = LaterOf(LastServiceEnd, max_recordings * interval)
       /\ sim_results.simulation_end_time
             = LaterOf(LastServiceEnd, max_recordings * interval)

\* The same for the runs in which a customer completed, where
\* calculate_statistics does not take its early return.
EndTimeWithCustomers ==
    sim_pc = "returned" /\ SimCompleted # {} =>
       /\ SimCompleted = DOMAIN sim_customers
       /\ recordings = max_recordings
       /\ env_now = LaterOf(LastServiceEnd, max_recordings * interval)
       /\ sim_results.simulation_end_time
             = LaterOf(LastServiceEnd, max_recordings * interval)

Next ==
    \/ RunStart
    \/ ProcessEvent
    \/ ProcessEventRaises
    \/ RunReturn
    \/ SimStart
    \/ StepGeneratorEmpty
    \/ StepGeneratorNext
    \/ StepGeneratorLast
    \/ StepMonitor
    \/ StepMonitorAlone
    \/ StepMonitorEnd
    \/ StepCustomer
    \/ StepCustomerRaises
    \/ StepRequest
    \/ StepService
    \/ StepRelease
    \/ StepEnded
    \/ StepFailed
    \/ SimReturn

Spec == Init /\ [][Next]_vars

\* The runs followed to their end: the stores whose lines hold one customer,
\* where a customer who finds every line full joins one all the same, with
\* one item count on each side of the express limit; every SimPy run.
LiveItemChoices == {3, 9}

LiveInit ==
    /\ Init
    /\ variant = "event" => config.line_capacity = 1
    /\ \A i \in DOMAIN event_file :
          event_file[i].kind = "Join" => event_file[i].num_items \in LiveItemChoices

\* The driver's loop and env.run() keep taking steps while one is possible.
FairSpec == LiveInit /\ [][Next]_vars /\ WF_vars(Next)

\* A PriorityQueue of its own, empty at first, and a client calling it.
QueueInit == variant = "queue" /\ EventUnused /\ SimPyUnused /\ QueueUnused

QueueNext == QueueAdd \/ QueueRemove

QueueSpec == QueueInit /\ [][QueueNext]_vars

\* The event-driven runs of LiveInit in a store of one line, with a defect
\* in event generation.
DefectInit == LiveInit /\ variant = "event" /\ NumLines(config) = 1

DefectNext ==
    \/ RunStart
    \/ ProcessEvent
    \/ ProcessEventRaises
    \/ RunReturn
    \/ DefectiveAdd

DefectSpec == DefectInit /\ [][DefectNext]_vars

====
